---- MODULE Spec2Model ----
(***************************************************************************)
(* State-machine model of the 2Dto3D stereo pipeline: checkerboard corner  *)
(* extraction, monocular calibration, stereo calibration and dense         *)
(* reconstruction.  The file system is the program's state; every stage    *)
(* function is an operator translated from its C++ body, and the outcomes  *)
(* of the external library and file-system calls (OpenCV, std::filesystem) *)
(* are inputs drawn from small sets.                                       *)
(***************************************************************************)
EXTENDS Integers, Sequences, FiniteSets, TLC

VARIABLES
    boardWidth,    \* int boardWidth passed to every stage of a run
    boardHeight,   \* int boardHeight passed to every stage of a run
    inputDir,      \* side -> "missing" | "file" | "dir": what the image folder path is
    folder,        \* side -> directory entries of the image folder, in iteration order
    cornersFile,   \* side -> loc -> corners.yml of the side's corner folder F:
                   \*   loc "corner_data" is F/corner_data/corners.yml, loc "root" is
                   \*   F/corners.yml
    cameraFile,    \* side -> <outputPath>/camera_calibration.yml
    stereoFile,    \* <outputPath>/stereo_calibration.yml
    rectifyFile,   \* <outputPath>/stereo_rectify.yml
    last,          \* record of the most recent stage call (arguments, outcome, writes)
    recon,         \* the running call of reconstruct3D: position, locals, files written
    cloud,         \* a caller's point cloud: the points vector and the colors vector
    modelFile,     \* the model file savePointCloud writes and loadModel reads
    run,           \* the running call of StereoCalibrationProgram::runCalibration
    calls,         \* invocation -> a call of reconstruct3D running beside another one
    outputs        \* output path -> file name -> the file those calls write

vars == <<boardWidth, boardHeight, inputDir, folder, cornersFile, cameraFile,
          stereoFile, rectifyFile, last, recon, cloud, modelFile, run, calls, outputs>>

(***************************************************************************)
(* Bounds of the model.                                                    *)
(***************************************************************************)
MaxImages == 3
MaxPairs == 2
MaxBoardWidth == 3
MaxBoardHeight == 2
MaxPixels == 2

\* scaleFactor argument every caller of detectAndDrawCorners passes (1.0f)
ScaleFactor == 1

Sides == {"left", "right"}

\* the two directories a caller names as holding corners.yml: the folder
\* detectAndDrawCorners was given, or its corner_data subfolder
Locs == {"root", "corner_data"}

\* a path with no file, and a file that cannot be opened or parsed
NoFile == [kind |-> "absent"]
Unreadable == [kind |-> "unreadable"]

(***************************************************************************)
(* Directory entries.  An entry is a capture (its file name is the capture *)
(* id), whether it is a regular file, its extension as spelled on disk,    *)
(* and what the image decoder and the corner detector make of its content: *)
(*   "board"   a readable image in which the whole board is found          *)
(*   "noboard" a readable image in which the board is not (fully) found    *)
(*   "corrupt" cv::imread returns an empty matrix                          *)
(*   "bad"     an OpenCV call on the image raises cv::Exception            *)
(***************************************************************************)
Extensions == {".jpg", ".JPG", ".jpeg", ".PNG", ".bmp", ".tiff", ".tif", ".txt"}
Contents == {"board", "noboard", "corrupt", "bad"}

EntryKinds ==
    { [regular |-> TRUE,  ext |-> ".jpg",  content |-> "board"],
      [regular |-> TRUE,  ext |-> ".PNG",  content |-> "board"],
      [regular |-> TRUE,  ext |-> ".jpg",  content |-> "noboard"],
      [regular |-> TRUE,  ext |-> ".jpeg", content |-> "corrupt"],
      [regular |-> TRUE,  ext |-> ".bmp",  content |-> "bad"],
      [regular |-> TRUE,  ext |-> ".tif",  content |-> "board"],
      [regular |-> FALSE, ext |-> ".jpg",  content |-> "board"] }

PlainKinds ==
    { [regular |-> TRUE, ext |-> ".jpg", content |-> "board"],
      [regular |-> TRUE, ext |-> ".jpg", content |-> "noboard"] }

MkEntry(id, kind) ==
    [id |-> id, regular |-> kind.regular, ext |-> kind.ext, content |-> kind.content]

\* the listings of n entries, n in `lens`, each of a kind of `kinds`; the entry at
\* position i of the iteration order is capture i
Listings(kinds, lens) ==
    UNION { { [i \in 1..n |-> MkEntry(i, ks[i])] : ks \in [1..n -> kinds] } : n \in lens }

(***************************************************************************)
(* corner_detection.cpp                                                    *)
(***************************************************************************)
\* std::transform(ext.begin(), ext.end(), ext.begin(), ::tolower)
ToLower(ext) ==
    CASE ext = ".JPG" -> ".jpg"
      [] ext = ".PNG" -> ".png"
      [] OTHER -> ext

\* ext == ".jpg" || ext == ".jpeg" || ext == ".png" || ext == ".bmp" || ext == ".tiff"
IsImageExt(ext) == ToLower(ext) \in {".jpg", ".jpeg", ".png", ".bmp", ".tiff"}

\* cv::imread: TRUE iff the returned matrix is not empty
imread(e) == e.content # "corrupt"

\* the points a detector reports for capture `src`: point k of the grid
Grid(src, n) == [k \in 1..n |-> <<src, k>>]

\* cv::findChessboardCorners (+ cornerSubPix, which keeps the count): non-zero iff
\* all w*h corners were found; otherwise the output holds the corners found so far
findChessboardCorners(e, w, h) ==
    IF e.content = "board"
    THEN [found |-> TRUE,  corners |-> Grid(e.id, w * h)]
    ELSE [found |-> FALSE, corners |-> Grid(e.id, w * h - 1)]

EmptyAcc ==
    [allCorners |-> <<>>, imageFiles |-> <<>>, successCount |-> 0,
     visited |-> <<>>, aborted |-> FALSE]

ProcessEntryStoresAlways(e, w, h, acc) ==
    IF ~e.regular \/ ~IsImageExt(e.ext) THEN acc
    ELSE LET seen == [acc EXCEPT !.visited = Append(@, e.id)]
             r == findChessboardCorners(e, w, h)
         IN  IF ~imread(e) \/ e.content = "bad" THEN seen
             ELSE [seen EXCEPT !.allCorners = Append(@, r.corners),
                               !.imageFiles = Append(@, e.id),
                               !.successCount = @ + 1]

ProcessEntryAbortsOnFailure(e, w, h, acc) ==
    IF acc.aborted \/ ~e.regular \/ ~IsImageExt(e.ext) THEN acc
    ELSE LET seen == [acc EXCEPT !.visited = Append(@, e.id)]
             r == findChessboardCorners(e, w, h)
         IN  IF ~imread(e) \/ e.content = "bad" THEN [seen EXCEPT !.aborted = TRUE]
             ELSE IF r.found
                  THEN [seen EXCEPT !.allCorners = Append(@, r.corners),
                                    !.imageFiles = Append(@, e.id),
                                    !.successCount = @ + 1]
                  ELSE seen

\* one iteration of the loop over the directory (lines 29-95); `visited` lists the
\* images the body was entered for
ProcessEntry(e, w, h, acc) ==
    IF ~e.regular \/ ~IsImageExt(e.ext) THEN acc
    ELSE LET seen == [acc EXCEPT !.visited = Append(@, e.id)]
             r == findChessboardCorners(e, w, h)
         IN  IF ~imread(e) THEN seen                  \* continue
             ELSE IF e.content = "bad" THEN seen      \* inner catch
             ELSE IF r.found
                  THEN [seen EXCEPT !.allCorners = Append(@, r.corners),
                                    !.imageFiles = Append(@, e.id),
                                    !.successCount = @ + 1]
                  ELSE seen

RECURSIVE ProcessEntries(_, _, _, _)
ProcessEntries(entries, w, h, acc) ==
    IF entries = <<>> THEN acc
    ELSE ProcessEntries(Tail(entries), w, h, ProcessEntry(Head(entries), w, h, acc))

\* the record the FileStorage block (lines 99-119) writes
CornerRecord(w, h, acc) ==
    [kind         |-> "corners",
     board_width  |-> w,
     board_height |-> h,
     image_count  |-> acc.successCount,
     scale_factor |-> ScaleFactor,
     image_files  |-> acc.imageFiles,
     corners      |-> acc.allCorners]

DetectFailed(old) ==
    [ret |-> FALSE, file |-> old, wrote |-> FALSE, acc |-> EmptyAcc]

detectAndDrawCornersWritesAlways(dir, entries, old, w, h, mk, wr) ==
    IF mk = "throws" \/ dir # "dir" THEN DetectFailed(old)
    ELSE LET acc == ProcessEntries(entries, w, h, EmptyAcc)
         IN  [ret   |-> acc.successCount > 0,
              file  |-> IF wr = "ok" THEN CornerRecord(w, h, acc) ELSE old,
              wrote |-> wr = "ok",
              acc   |-> acc]

detectAndDrawCornersReturnsTrue(dir, entries, old, w, h, mk, wr) ==
    IF mk = "throws" \/ dir # "dir" THEN DetectFailed(old)
    ELSE LET acc == ProcessEntries(entries, w, h, EmptyAcc)
         IN  IF acc.successCount > 0
             THEN [ret   |-> TRUE,
                   file  |-> IF wr = "ok" THEN CornerRecord(w, h, acc) ELSE old,
                   wrote |-> wr = "ok",
                   acc   |-> acc]
             ELSE [ret |-> TRUE, file |-> old, wrote |-> FALSE, acc |-> acc]

\* detectAndDrawCorners(inputFolder, outputFolder, boardWidth, boardHeight, 1.0f)
\*   dir, entries : the input folder;  old : corners.yml before the call
\*   mk : outcome of create_directories;  wr : whether corners.yml opens for writing
\*        (operator<< on a FileStorage that is not open is a no-op)
detectAndDrawCorners(dir, entries, old, w, h, mk, wr) ==
    IF mk = "throws" THEN DetectFailed(old)          \* outer catch
    ELSE IF dir = "missing" THEN DetectFailed(old)   \* !exists(inputFolder)
    ELSE IF dir = "file" THEN DetectFailed(old)      \* directory_iterator throws
    ELSE LET acc == ProcessEntries(entries, w, h, EmptyAcc)
         IN  IF acc.successCount > 0
             THEN [ret   |-> TRUE,
                   file  |-> IF wr = "ok" THEN CornerRecord(w, h, acc) ELSE old,
                   wrote |-> wr = "ok",
                   acc   |-> acc]
             ELSE [ret |-> FALSE, file |-> old, wrote |-> FALSE, acc |-> acc]

(***************************************************************************)
(* Dense reconstruction (src/stereo_reconstruction.cpp).  reconstruct3D is *)
(* followed statement by statement: recon.pc is the step about to run and  *)
(* recon.trace the steps that ran, each with the outcome its caller sees.  *)
(* Coordinates are fixed-point numbers counted in halves of a unit; a      *)
(* point with a NaN or infinite coordinate has finite = FALSE.             *)
(***************************************************************************)
PLY_FORMAT == 0
OBJ_FORMAT == 1
XYZ_FORMAT == 2

\* the values a caller can pass as outputFormat: the enumerators and one other int
Formats == {PLY_FORMAT, OBJ_FORMAT, XYZ_FORMAT, XYZ_FORMAT + 1}

\* the three values of enum OutputFormat
KnownFormats == {PLY_FORMAT, OBJ_FORMAT, XYZ_FORMAT}

\* the threshold reconstruct3D passes to filterPointCloud (10000.0f), in halves
MaxDistance == 10000 * 2

\* the prefix the permissive pass of filterPointCloud looks at
FallbackCap == 10000

\* what the matcher reports for a pixel (CV_32F after convertTo)
DisparityValues == {-1, 0, 1}

Point(x) == [finite |-> TRUE, x |-> x, y |-> 0, z |-> 0]
NonFinite == [finite |-> FALSE, x |-> 0, y |-> 0, z |-> 0]

\* a point off the x axis: (0.5, 0.5, 0.5)
OffAxis == [finite |-> TRUE, x |-> 1, y |-> 1, z |-> 1]

\* the positions Q can send a pixel to: 0.5, 1.0 and 1.5 units from the origin on the
\* x axis, off the axis, beyond the threshold, and a division by a zero homogeneous
\* coordinate
PointVals == {Point(1), Point(2), Point(3), OffAxis, Point(2 * MaxDistance), NonFinite}

\* the BGR value of pixel i of the rectified left image
ColorAt(i) == <<i, i + MaxPixels, i + 2 * MaxPixels>>

\* two empty vectors
EmptyCloud == [points |-> <<>>, colors |-> <<>>]

NotCalled ==
    [pc |-> "idle", outputFormat |-> PLY_FORMAT, pixels |-> 0, trace |-> <<>>,
     ret |-> FALSE, disparityMap |-> <<>>, points |-> <<>>, colors |-> <<>>,
     generated |-> <<>>, scaled |-> FALSE, remainingPoints |-> 0,
     rectifiedWritten |-> FALSE,
     disparityWritten |-> FALSE, outputFile |-> "", cloudFile |-> NoFile]

\* loadStereoCalibrationData (stereo_calibration.cpp): the file opens and holds
\* non-empty camera matrices, R and T
loadStereoCalibrationData(f) ==
    /\ f.kind = "stereo"
    /\ f.left_camera_matrix # "" /\ f.right_camera_matrix # ""

\* rectifyStereoPair: loads the rig again, opens stereo_rectify.yml next to it and
\* remaps; any exception of initUndistortRectifyMap / remap is caught and gives false
rectifyStereoPair(sf, rf, fault) ==
    /\ loadStereoCalibrationData(sf)
    /\ rf.kind = "rectify"
    /\ fault # "throws"

\* computeDisparityMap: true iff the matcher ran and the map is not empty
computeDisparityMap(map, fault) == fault # "throws" /\ map # <<>>

ValidPixelsFromZero(map) == SelectSeq([i \in 1..Len(map) |-> i], LAMBDA i : map[i] >= 0)

\* the pixels with `disparity > 0` (line 238), in the order the loops visit them
ValidPixels(map) == SelectSeq([i \in 1..Len(map) |-> i], LAMBDA i : map[i] > 0)

generatePointCloudReturnsTrue(map, geom) ==
    LET valid == ValidPixels(map) IN
    [ret    |-> TRUE,
     points |-> [k \in 1..Len(valid) |-> geom[valid[k]]],
     colors |-> [k \in 1..Len(valid) |-> ColorAt(valid[k])]]

\* generatePointCloud: one point per pixel with disparity > 0, in row-major order,
\* with the colour of the left image at that pixel; true iff a point was produced
generatePointCloud(map, geom) ==
    LET valid == ValidPixels(map) IN
    [ret    |-> valid # <<>>,
     points |-> [k \in 1..Len(valid) |-> geom[valid[k]]],
     colors |-> [k \in 1..Len(valid) |-> ColorAt(valid[k])]]

SetMax(S) == CHOOSE m \in S : \A v \in S : v <= m
SetMin(S) == CHOOSE m \in S : \A v \in S : m <= v

\* lines 108-125: the largest extent of the finite points along an axis; with no
\* finite point the extents are -FLT_MAX - FLT_MAX, i.e. negative
MaxRange(points) ==
    LET fin == {i \in 1..Len(points) : points[i].finite}
        xs  == {points[i].x : i \in fin}
        ys  == {points[i].y : i \in fin}
        zs  == {points[i].z : i \in fin}
    IN  IF fin = {} THEN -1
        ELSE SetMax({SetMax(xs) - SetMin(xs), SetMax(ys) - SetMin(ys),
                     SetMax(zs) - SetMin(zs)})

\* lines 127-136: a cloud narrower than 1.0 (2 halves) is multiplied by 10.0 / maxRange
NeedsScaling(points) == MaxRange(points) > 0 /\ MaxRange(points) < 2

ScalePointAlongX(p, maxRange) ==
    IF p.finite THEN [p EXCEPT !.x = (p.x * 20) \div maxRange] ELSE p

\* lines 132-136: every coordinate times 10.0 / maxRange (NaN and infinity stay so)
ScalePoint(p, maxRange) ==
    IF p.finite
    THEN [finite |-> TRUE, x |-> (p.x * 20) \div maxRange,
          y |-> (p.y * 20) \div maxRange, z |-> (p.z * 20) \div maxRange]
    ELSE p

Rescaled(points) ==
    IF NeedsScaling(points)
    THEN [i \in 1..Len(points) |-> ScalePoint(points[i], MaxRange(points))]
    ELSE points

Abs(v) == IF v < 0 THEN -v ELSE v

\* lines 325-329: finite, and norm and every coordinate below maxDistance
PassesStrict(p, maxDistance) ==
    /\ p.finite
    /\ Abs(p.x) < maxDistance /\ Abs(p.y) < maxDistance /\ Abs(p.z) < maxDistance
    /\ p.x * p.x + p.y * p.y + p.z * p.z < maxDistance * maxDistance

filterPointCloudFallbackSkipsFirst(points, colors, maxDistance) ==
    LET all    == [i \in 1..Len(points) |-> i]
        strict == SelectSeq(all, LAMBDA i : PassesStrict(points[i], maxDistance))
        kept   == IF strict = <<>> /\ points # <<>>
                  THEN SelectSeq(Tail(all), LAMBDA i : points[i].finite)
                  ELSE strict
    IN  [points |-> [k \in 1..Len(kept) |-> points[kept[k]]],
         colors |-> [k \in 1..Len(kept) |-> colors[kept[k]]],
         remainingPoints |-> Len(kept)]

filterPointCloudNoFallback(points, colors, maxDistance) ==
    LET all  == [i \in 1..Len(points) |-> i]
        kept == SelectSeq(all, LAMBDA i : PassesStrict(points[i], maxDistance))
    IN  [points |-> [k \in 1..Len(kept) |-> points[kept[k]]],
         colors |-> [k \in 1..Len(kept) |-> colors[kept[k]]],
         remainingPoints |-> Len(kept)]

filterPointCloudKeepsColors(points, colors, maxDistance) ==
    LET all    == [i \in 1..Len(points) |-> i]
        strict == SelectSeq(all, LAMBDA i : PassesStrict(points[i], maxDistance))
        kept   == IF strict = <<>> /\ points # <<>>
                  THEN SelectSeq(all, LAMBDA i : points[i].finite)
                  ELSE strict
    IN  [points |-> [k \in 1..Len(kept) |-> points[kept[k]]],
         colors |-> colors,
         remainingPoints |-> Len(kept)]

\* filterPointCloud: the strict pass, or, when it keeps nothing, the finite points
\* among the first FallbackCap ones; returns the number of points left
filterPointCloud(points, colors, maxDistance) ==
    LET all    == [i \in 1..Len(points) |-> i]
        strict == SelectSeq(all, LAMBDA i : PassesStrict(points[i], maxDistance))
        prefix == SubSeq(all, 1, IF Len(points) < FallbackCap
                                 THEN Len(points) ELSE FallbackCap)
        kept   == IF strict = <<>> /\ points # <<>>
                  THEN SelectSeq(prefix, LAMBDA i : points[i].finite)
                  ELSE strict
    IN  [points |-> [k \in 1..Len(kept) |-> points[kept[k]]],
         colors |-> [k \in 1..Len(kept) |-> colors[kept[k]]],
         remainingPoints |-> Len(kept)]

\* lines 151-163: the name of the reconstruction file
OutputFile(format) ==
    IF format = OBJ_FORMAT THEN "reconstruction.obj"
    ELSE IF format = XYZ_FORMAT THEN "reconstruction.xyz"
    ELSE "reconstruction.ply"

\* the digits operator<< keeps of a float: six significant ones.  A coordinate below
\* 100000 units (200000 halves) has at most five integer digits and one decimal and
\* is printed exactly; a larger one is rounded to a multiple of `step`
RECURSIVE StepFor(_, _)
StepFor(a, step) ==
    IF a \div step < 1000000 THEN step ELSE StepFor(a, step * 10)

\* round-half-even of a >= 0 to a multiple of step, as printf does for an exact tie
RoundToStep(a, step) ==
    LET q == a \div step
        r == a % step
    IN  IF 2 * r < step THEN q * step
        ELSE IF 2 * r > step THEN (q + 1) * step
        ELSE (IF q % 2 = 0 THEN q ELSE q + 1) * step

\* the decimal number `file << value` writes, as the value it denotes (in halves)
FormatFloat(v) ==
    IF Abs(v) < 2 * 100000 THEN v
    ELSE IF v < 0 THEN -RoundToStep(-v, StepFor(-v, 2))
    ELSE RoundToStep(v, StepFor(v, 2))

\* the three coordinates as written: numbers, or a "nan" / "inf" among them
FormatPoint(p) ==
    [numeric |-> p.finite, x |-> FormatFloat(p.x), y |-> FormatFloat(p.y),
     z |-> FormatFloat(p.z)]

\* the header savePointCloud writes for PLY, and no header
PlyHeader(n) == [magic |-> "ply", vertex |-> n, end_header |-> TRUE]
NoHeader == [magic |-> "", vertex |-> 0, end_header |-> FALSE]

\* savePointCloud: creates the file, then writes what the format asks for; a format
\* that is none of the three leaves the created file empty and still returns true
savePointCloud(points, colors, filename, format, open) ==
    IF open = "openfail"
    THEN [ret |-> FALSE, file |-> NoFile]
    ELSE [ret |-> TRUE,
          file |-> [kind |-> "cloud", name |-> filename,
                    header |-> IF format = PLY_FORMAT THEN PlyHeader(Len(points))
                               ELSE NoHeader,
                    lines |-> IF format = PLY_FORMAT
                              THEN [i \in 1..Len(points) |->
                                      [prefix |-> "", coords |-> FormatPoint(points[i]),
                                       rgb |-> <<colors[i][3], colors[i][2], colors[i][1]>>]]
                              ELSE IF format = XYZ_FORMAT \/ format = OBJ_FORMAT
                              THEN [i \in 1..Len(points) |->
                                      [prefix |-> IF format = OBJ_FORMAT THEN "v " ELSE "",
                                       coords |-> FormatPoint(points[i]), rgb |-> <<>>]]
                              ELSE <<>>]]

(***************************************************************************)
(* The model viewer's reader (src/model_viewer.cpp).                       *)
(***************************************************************************)
\* lines 23-24: the text after the last "." of the file name, in lower case
Extension(filename) ==
    IF filename \in {"reconstruction.ply", "model.PLY"} THEN "ply"
    ELSE IF filename = "reconstruction.xyz" THEN "xyz"
    ELSE IF filename = "reconstruction.obj" THEN "obj"
    ELSE "txt"

White == <<255, 255, 255>>

\* `iss >> x >> y >> z` succeeds on the text of a line (operator>> reads no "nan")
ReadsXYZ(line) == line.prefix = "" /\ line.coords.numeric

\* the point a line's three numbers denote
ParsePoint(line) ==
    [finite |-> TRUE, x |-> line.coords.x, y |-> line.coords.y, z |-> line.coords.z]

PlyColorAsWritten(line) ==
    IF Len(line.rgb) = 3 THEN line.rgb ELSE White

\* lines 56-62: six numbers give a point with Vec3b(b, g, r), three a white point
PlyColor(line) ==
    IF Len(line.rgb) = 3 THEN <<line.rgb[3], line.rgb[2], line.rgb[1]>> ELSE White

\* the vectors after reading `lines`, taking those that pass Reads-tests given as the
\* sequence `taken` of line numbers
Parsed(lines, taken, ply) ==
    [points |-> [k \in 1..Len(taken) |-> ParsePoint(lines[taken[k]])],
     colors |-> [k \in 1..Len(taken) |->
                   IF ply THEN PlyColor(lines[taken[k]]) ELSE White]]

\* loadModel: clears both vectors, opens the file, reads it as its extension says and
\* returns !points.empty()
loadModel(file) ==
    IF file.kind # "cloud"
    THEN [ret |-> FALSE, points |-> <<>>, colors |-> <<>>]
    ELSE
    LET ext == Extension(file.name)
        all == [i \in 1..Len(file.lines) |-> i]
        body == IF file.header.vertex < Len(file.lines)
                THEN SubSeq(all, 1, file.header.vertex) ELSE all
        out == IF ext = "ply"
               THEN IF ~file.header.end_header \/ file.header.vertex = 0
                    THEN EmptyCloud
                    ELSE Parsed(file.lines,
                                SelectSeq(body, LAMBDA i : ReadsXYZ(file.lines[i])), TRUE)
               ELSE IF ext = "xyz"
               THEN Parsed(file.lines,
                           SelectSeq(all, LAMBDA i : ReadsXYZ(file.lines[i])), FALSE)
               ELSE IF ext = "obj"
               THEN Parsed(file.lines,
                           SelectSeq(all, LAMBDA i : file.lines[i].prefix = "v "
                                                     /\ file.lines[i].coords.numeric),
                           FALSE)
               ELSE EmptyCloud
    IN  [ret |-> out.points # <<>>, points |-> out.points, colors |-> out.colors]

\* the statement after a step: its `if (!...) return false;` gate
AfterStep(ok, next) == IF ok THEN next ELSE "done"

\* the record of the call after `step` ran with outcome ok from state r
Stepped(r, step, ok, next) ==
    [r EXCEPT !.trace = Append(@, [step |-> step, ok |-> ok]),
              !.pc = AfterStep(ok, next),
              !.ret = FALSE]

Files == <<boardWidth, boardHeight, inputDir, folder, cornersFile, cameraFile,
           stereoFile, rectifyFile, last, cloud, modelFile, run, calls, outputs>>

\* lines 20-22: the call begins; create_directories may throw into the handler of
\* lines 173-176
Reconstruct3D ==
    /\ recon.pc = "idle"
    /\ \E format \in Formats, mk \in {"ok", "throws"} :
         recon' = [recon EXCEPT !.outputFormat = format,
                                !.pc = IF mk = "ok" THEN "loadImages" ELSE "done"]
    /\ UNCHANGED Files

\* lines 25-31: cv::imread gives an image of `size` pixels, or an empty one for a
\* file it cannot read
LoadImages ==
    /\ recon.pc = "loadImages"
    /\ \E size \in 1..MaxPixels, leftImage \in BOOLEAN, rightImage \in BOOLEAN :
         /\ leftImage \/ rightImage \/ size = 1
         /\ recon' = Stepped([recon EXCEPT !.pixels = size], "loadImages",
                             leftImage /\ rightImage, "loadRig")
    /\ UNCHANGED Files

\* lines 36-46
LoadRig ==
    /\ recon.pc = "loadRig"
    /\ recon' = Stepped(recon, "loadRig", loadStereoCalibrationData(stereoFile), "rectify")
    /\ UNCHANGED Files

\* lines 49-61: rectify, then write the two rectified images
Rectify ==
    /\ recon.pc = "rectify"
    /\ \E fault \in {"none", "throws"} :
         LET ok == rectifyStereoPair(stereoFile, rectifyFile, fault) IN
         recon' = Stepped([recon EXCEPT !.rectifiedWritten = ok], "rectify", ok, "disparity")
    /\ UNCHANGED Files

\* lines 64-75: match, then write the visualisation of the map
Disparity ==
    /\ recon.pc = "disparity"
    /\ \E map \in [1..recon.pixels -> DisparityValues], fault \in {"none", "throws"} :
         LET ok == computeDisparityMap(map, fault) IN
         recon' = Stepped([recon EXCEPT !.disparityMap = IF ok THEN map ELSE <<>>,
                                        !.disparityWritten = ok],
                          "disparity", ok, "loadQ")
    /\ UNCHANGED Files

\* lines 78-86: stereo_rectify.yml is opened a second time
LoadQ ==
    /\ recon.pc = "loadQ"
    /\ \E fault \in {"none", "openfail"} :
         recon' = Stepped(recon, "loadQ", rectifyFile.kind = "rectify" /\ fault = "none",
                          "generate")
    /\ UNCHANGED Files

\* lines 89-94
Generate ==
    /\ recon.pc = "generate"
    /\ \E geom \in [1..recon.pixels -> PointVals] :
         LET g == generatePointCloud(recon.disparityMap, geom) IN
         recon' = Stepped([recon EXCEPT !.points = g.points, !.colors = g.colors,
                                        !.generated = g.points],
                          "generate", g.ret, "rescale")
    /\ UNCHANGED Files

\* lines 99-144
Rescale ==
    /\ recon.pc = "rescale"
    /\ recon' = [recon EXCEPT !.points = Rescaled(recon.points),
                              !.scaled = NeedsScaling(recon.points),
                              !.pc = "filter"]
    /\ UNCHANGED Files

\* lines 147-148: the count filterPointCloud returns is printed, nothing else
Filter ==
    /\ recon.pc = "filter"
    /\ LET f == filterPointCloud(recon.points, recon.colors, MaxDistance) IN
       recon' = [recon EXCEPT !.points = f.points, !.colors = f.colors,
                              !.remainingPoints = f.remainingPoints,
                              !.trace = Append(@, [step |-> "filter",
                                                   ok |-> f.remainingPoints > 0]),
                              !.pc = "save"]
    /\ UNCHANGED Files

\* lines 151-171
Save ==
    /\ recon.pc = "save"
    /\ \E open \in {"ok", "openfail"} :
         LET s == savePointCloud(recon.points, recon.colors,
                                 OutputFile(recon.outputFormat), recon.outputFormat, open)
         IN  recon' = [recon EXCEPT !.trace = Append(@, [step |-> "save", ok |-> s.ret]),
                                    !.outputFile = OutputFile(recon.outputFormat),
                                    !.cloudFile = s.file,
                                    !.ret = s.ret,
                                    !.pc = "done"]
    /\ UNCHANGED Files

\* no call of savePointCloud or loadModel was made yet
NoModelCall ==
    [op |-> "none", ret |-> FALSE, format |-> PLY_FORMAT, saved |-> EmptyCloud,
     written |-> FALSE]

Others == <<boardWidth, boardHeight, inputDir, folder, cornersFile, cameraFile,
            stereoFile, rectifyFile, recon, run, calls, outputs>>

\* one call of savePointCloud on the caller's cloud, with the file name reconstruct3D
\* gives it (lines 151-165); last.saved is the cloud the model file was written from
SavePointCloud ==
    /\ \E format \in Formats, open \in {"ok", "openfail"} :
         LET s == savePointCloud(cloud.points, cloud.colors, OutputFile(format),
                                 format, open)
         IN  /\ modelFile' = IF s.ret THEN s.file ELSE modelFile
             /\ last' = IF s.ret
                        THEN [op |-> "save", ret |-> TRUE, format |-> format,
                              saved |-> cloud, written |-> TRUE]
                        ELSE [last EXCEPT !.op = "save", !.ret = FALSE]
    /\ UNCHANGED <<cloud, Others>>

\* one call of loadModel on the model file, into the caller's vectors
LoadModel ==
    /\ LET l == loadModel(modelFile)
       IN  /\ cloud' = [points |-> l.points, colors |-> l.colors]
           /\ last' = [last EXCEPT !.op = "load", !.ret = l.ret]
    /\ UNCHANGED <<modelFile, Others>>

\* the thresholds a caller passes: 1.0 and the 10000.0 of reconstruct3D
Thresholds == {2, MaxDistance}

\* one call of generatePointCloud into the caller's vectors; Q is applied to the
\* pixels with a positive disparity only (line 238), so geom matters there alone
GeneratePointCloud ==
    /\ \E n \in 1..MaxPixels :
         \E map \in [1..n -> DisparityValues], geom \in [1..n -> PointVals] :
           /\ \A i \in 1..n : map[i] <= 0 => geom[i] = NonFinite
           /\ LET g == generatePointCloud(map, geom)
              IN  /\ cloud' = [points |-> g.points, colors |-> g.colors]
                  /\ last' = [op |-> "generate", ret |-> g.ret, map |-> map,
                              geom |-> geom, hadContent |-> cloud.points # <<>>]
    /\ UNCHANGED <<modelFile, Others>>

\* the rescaling reconstruct3D applies to a generated cloud (lines 99-144)
AutoRescale ==
    /\ cloud.points # <<>>
    /\ cloud' = [cloud EXCEPT !.points = Rescaled(cloud.points)]
    /\ last' = [op |-> "rescale", ret |-> NeedsScaling(cloud.points), before |-> cloud]
    /\ UNCHANGED <<modelFile, Others>>

\* one call of filterPointCloud on the caller's vectors
FilterPointCloud ==
    /\ \E maxDistance \in Thresholds :
         LET f == filterPointCloud(cloud.points, cloud.colors, maxDistance)
         IN  /\ cloud' = [points |-> f.points, colors |-> f.colors]
             /\ last' = [op |-> "filter", ret |-> f.remainingPoints,
                         maxDistance |-> maxDistance, before |-> cloud]
    /\ UNCHANGED <<modelFile, Others>>

Idle == [op |-> "none"]

DetectAndDrawCorners(side) ==
    \E fault \in {"none", "mk", "wr"} :
        LET mk == IF fault = "mk" THEN "throws" ELSE "ok"
            wr == IF fault = "wr" THEN "openfail" ELSE "ok"
            r == detectAndDrawCorners(inputDir[side], folder[side],
                                      cornersFile[side]["corner_data"],
                                      boardWidth, boardHeight, mk, wr)
        IN  /\ cornersFile' = [cornersFile EXCEPT ![side]["corner_data"] = r.file]
            /\ last' = [op |-> "detect", side |-> side, ret |-> r.ret,
                        wrote |-> r.wrote, before |-> cornersFile[side]["corner_data"],
                        acc |-> r.acc, mk |-> mk]
            /\ UNCHANGED <<boardWidth, boardHeight, inputDir, folder, cameraFile,
                           stereoFile, rectifyFile, recon, cloud, modelFile, run, calls, outputs>>

(***************************************************************************)
(* corner_detection.cpp: saveCornerData, the repository's other writer of  *)
(* a file with a "corners" sequence; it may hold zero observations.        *)
(***************************************************************************)
saveCornerData(corners) ==
    [kind |-> "corners", corner_count |-> Len(corners), corners |-> corners]

EmptyDataset == saveCornerData(<<>>)

(***************************************************************************)
(* mono_calibration.cpp                                                    *)
(***************************************************************************)
\* the object-point template of lines 45-53: boardWidth * boardHeight points per view
ObjectPoints(n, w, h) == [i \in 1..n |-> w * h]

\* cv::calibrateCamera / cv::stereoCalibrate raise cv::Exception when a view's image
\* points and object points differ in number; otherwise the outcome is the library's
SolverThrows(imagePoints, w, h, solver) ==
    \/ solver = "throws"
    \/ \E i \in 1..Len(imagePoints) :
          Len(imagePoints[i]) # ObjectPoints(Len(imagePoints), w, h)[i]

\* saveCalibrationData (lines 136-166): camera matrix and distortion as estimated
\* from `imagePoints`
CameraRecord(imagePoints) ==
    [kind |-> "camera",
     camera_matrix |-> <<"K", imagePoints>>,
     distortion_coefficients |-> <<"D", imagePoints>>]

\* first match of lines 232-241, then the fallback of 243-255, for index imgIdx
\* (file names are single-digit capture ids)
RECURSIVE FirstEntry(_, _, _)
FirstEntry(entries, imgIdx, fallback) ==
    IF entries = <<>> THEN [kind |-> "none"]
    ELSE LET e == Head(entries)
         IN  IF fallback
             THEN IF e.regular /\ ToLower(e.ext) \in {".jpg", ".jpeg", ".png", ".bmp"}
                  THEN e ELSE FirstEntry(Tail(entries), imgIdx, fallback)
             ELSE IF e.regular /\ (e.id = imgIdx \/ imgIdx = 0)
                  THEN e ELSE FirstEntry(Tail(entries), imgIdx, fallback)

ResidualSource(entries, imgIdx) ==
    LET m == FirstEntry(entries, imgIdx, FALSE)
    IN  IF "id" \in DOMAIN m THEN m ELSE FirstEntry(entries, imgIdx, TRUE)

\* generateResidualImages (lines 186-319): the indices imgIdx whose residual_<imgIdx>.jpg
\* is written; a missing image folder raises inside the function, which then returns
\* false to a caller that ignores the result
generateResidualImages(dir, entries, n) ==
    IF dir # "dir" THEN {}
    ELSE { imgIdx \in 0..(n - 1) :
             LET src == ResidualSource(entries, imgIdx)
             IN  "id" \in DOMAIN src /\ imread(src) }

\* the undistortion loop of lines 83-104: names of the images written
Undistorted(entries) ==
    { entries[i].id : i \in { j \in 1..Len(entries) :
          /\ entries[j].regular /\ IsImageExt(entries[j].ext)
          /\ imread(entries[j]) /\ entries[j].content # "bad" } }

MonoFailed(old, invoked) ==
    [ret |-> FALSE, file |-> old, wrote |-> FALSE, solverInvoked |-> invoked,
     residuals |-> {}, undistorted |-> {}]

calibrateCameraSkipsEmptyCheck(corners, dir, entries, old, w, h, undist, mk, solver, save) ==
    IF mk = "throws" \/ corners.kind # "corners" THEN MonoFailed(old, FALSE)
    ELSE IF SolverThrows(corners.corners, w, h, solver) \/ save = "openfail"
         THEN MonoFailed(old, TRUE)
    ELSE [ret |-> ~undist \/ dir = "dir",
          file |-> CameraRecord(corners.corners), wrote |-> TRUE, solverInvoked |-> TRUE,
          residuals |-> generateResidualImages(dir, entries, Len(corners.corners)),
          undistorted |-> IF undist /\ dir = "dir" THEN Undistorted(entries) ELSE {}]

\* MonoCalibration::calibrateCamera
\*   corners : <cornerDataPath>/corners.yml;  dir, entries : imageFolderPath
\*   old : camera_calibration.yml before the call
\*   undist : saveUndistorted && !undistortedPath.empty()
\*   mk, solver, save : outcomes of create_directories, cv::calibrateCamera and of
\*                      opening camera_calibration.yml for writing
calibrateCamera(corners, dir, entries, old, w, h, undist, mk, solver, save) ==
    IF mk = "throws" THEN MonoFailed(old, FALSE)                  \* outer catch
    ELSE IF corners.kind # "corners" THEN MonoFailed(old, FALSE)  \* !fs.isOpened()
    ELSE IF corners.corners = <<>> THEN MonoFailed(old, FALSE)    \* imagePoints.empty()
    ELSE IF SolverThrows(corners.corners, w, h, solver) THEN MonoFailed(old, TRUE)
    ELSE IF save = "openfail" THEN MonoFailed(old, TRUE)          \* lines 68-71
    ELSE LET written == CameraRecord(corners.corners)
             residuals == generateResidualImages(dir, entries, Len(corners.corners))
         IN  IF undist /\ dir # "dir"
             THEN \* directory_iterator(imageFolderPath) throws: outer catch, line 108
                  [ret |-> FALSE, file |-> written, wrote |-> TRUE,
                   solverInvoked |-> TRUE, residuals |-> residuals, undistorted |-> {}]
             ELSE [ret |-> TRUE, file |-> written, wrote |-> TRUE,
                   solverInvoked |-> TRUE, residuals |-> residuals,
                   undistorted |-> IF undist THEN Undistorted(entries) ELSE {}]

CalibrateCamera(side) ==
    \E loc \in Locs, imagePath \in {"folder", "nowhere"}, undist \in BOOLEAN,
       fault \in {"none", "mk", "solver", "save"} :
        LET mk == IF fault = "mk" THEN "throws" ELSE "ok"
            solver == IF fault = "solver" THEN "throws" ELSE "ok"
            save == IF fault = "save" THEN "openfail" ELSE "ok"
            r == calibrateCamera(cornersFile[side][loc],
                                 IF imagePath = "folder" THEN inputDir[side] ELSE "missing",
                                 IF imagePath = "folder" THEN folder[side] ELSE <<>>,
                                 cameraFile[side], boardWidth, boardHeight,
                                 undist, mk, solver, save)
        IN  /\ cameraFile' = [cameraFile EXCEPT ![side] = r.file]
            /\ last' = [op |-> "mono", side |-> side, loc |-> loc,
                        imagePath |-> imagePath, ret |-> r.ret,
                        wrote |-> r.wrote, before |-> cameraFile[side],
                        solverInvoked |-> r.solverInvoked, undist |-> undist,
                        fault |-> fault,
                        afterFailedDetect |-> last.op = "detect" /\ ~last.ret,
                        residuals |-> r.residuals, undistorted |-> r.undistorted]
            /\ UNCHANGED <<boardWidth, boardHeight, inputDir, folder, cornersFile,
                           stereoFile, rectifyFile, recon, cloud, modelFile, run, calls, outputs>>

(***************************************************************************)
(* mono_calibration.cpp: the calibration file as text.  A cv::Mat is its   *)
(* shape and its CV_64F elements in row-major order; an element is counted *)
(* in thousandths.  operator<< of cv::FileStorage prints an element with   *)
(* "%d." when it is a whole number and with "%.16e" otherwise.             *)
(***************************************************************************)
\* cv::Mat(): no rows, no columns, no data
EmptyMat == [rows |-> 0, cols |-> 0, data |-> <<>>]

\* cv::Mat::empty()
IsEmptyMat(m) == m.rows * m.cols = 0

\* the significant digits "%.16e" prints: one before the point and sixteen after
DoubleDigits == 17

RECURSIVE DigitsOf(_)
DigitsOf(a) == IF a < 10 THEN 1 ELSE 1 + DigitsOf(a \div 10)

RECURSIVE PowerOfTen(_)
PowerOfTen(n) == IF n = 0 THEN 1 ELSE 10 * PowerOfTen(n - 1)

\* a >= 0 rounded to `digits` significant decimal digits
RoundToDigits(a, digits) ==
    IF DigitsOf(a) <= digits THEN a
    ELSE RoundToStep(a, PowerOfTen(DigitsOf(a) - digits))

FormatDoubleAsFloat(v) ==
    IF v % 1000 = 0 THEN v
    ELSE IF v < 0 THEN -RoundToDigits(-v, 6)
    ELSE RoundToDigits(v, 6)

\* the number `fs << value` writes for a double, as the value it denotes
FormatDouble(v) ==
    IF v % 1000 = 0 THEN v
    ELSE IF v < 0 THEN -RoundToDigits(-v, DoubleDigits)
    ELSE RoundToDigits(v, DoubleDigits)

\* `fs << name << mat`: the !!opencv-matrix node with rows, cols and the data list
WriteMat(m) ==
    [rows |-> m.rows, cols |-> m.cols,
     data |-> [i \in 1..Len(m.data) |-> FormatDouble(m.data[i])]]

\* fs[name]: the node of that name, or the empty node when the file has none
Node(file, name) == IF name \in DOMAIN file THEN file[name] ELSE EmptyMat

\* `node >> mat`: the matrix the node's text denotes; the empty node gives cv::Mat()
ReadMat(node) == [rows |-> node.rows, cols |-> node.cols, data |-> node.data]

\* saveCalibrationData (lines 136-166); old is the file before the call
saveCalibrationData(old, cameraMatrix, distCoeffs, open) ==
    IF open = "openfail" THEN [ret |-> FALSE, file |-> old]
    ELSE [ret |-> TRUE,
          file |-> [kind |-> "camera",
                    camera_matrix |-> WriteMat(cameraMatrix),
                    distortion_coefficients |-> WriteMat(distCoeffs)]]

\* a file cv::FileStorage opens for reading: any of the YAML files of the pipeline
Opens(file) == file.kind \in {"camera", "stereo", "rectify", "corners"}

\* loadCalibrationData (lines 114-134); cameraMatrix and distCoeffs are the caller's
\* matrices before the call, left alone when the file does not open
loadCalibrationData(file, cameraMatrix, distCoeffs) ==
    IF ~Opens(file)
    THEN [ret |-> FALSE, cameraMatrix |-> cameraMatrix, distCoeffs |-> distCoeffs]
    ELSE LET K == ReadMat(Node(file, "camera_matrix"))
             D == ReadMat(Node(file, "distortion_coefficients"))
         IN  [ret |-> ~IsEmptyMat(K) /\ ~IsEmptyMat(D),
              cameraMatrix |-> K, distCoeffs |-> D]

\* the elements of the matrices below are 0, 1, -0.25, 800 and 1234.567
\* the 3x3 matrix [fx 0 cx; 0 fy cy; 0 0 1]
Intrinsics(fx, fy, cx, cy) ==
    [rows |-> 3, cols |-> 3, data |-> <<fx, 0, cx, 0, fy, cy, 0, 0, 1000>>]

\* the 5x1 vector (k1, k2, p1, p2, k3)
Distortion(k1, k2) == [rows |-> 5, cols |-> 1, data |-> <<k1, k2, 0, 0, 0>>]

CameraMatrices ==
    {EmptyMat} \cup {Intrinsics(f, f, c, c) : f \in {800000, 1234567}, c \in {0, 1234567}}

DistVectors == {EmptyMat} \cup {Distortion(k, 0) : k \in {0, -250}}

\* no call of saveCalibrationData or loadCalibrationData was made yet
NoCalibCall ==
    [op |-> "none", ret |-> FALSE, cameraMatrix |-> EmptyMat, distCoeffs |-> EmptyMat,
     savedMatrix |-> EmptyMat, savedDist |-> EmptyMat, written |-> FALSE]

\* one call of saveCalibrationData on the left camera's calibration file
SaveCalibrationData ==
    /\ \E K \in CameraMatrices, D \in DistVectors, open \in {"ok", "openfail"} :
         LET s == saveCalibrationData(cameraFile["left"], K, D, open)
         IN  /\ cameraFile' = [cameraFile EXCEPT !["left"] = s.file]
             /\ last' = [op |-> "saveCalib", ret |-> s.ret,
                         cameraMatrix |-> K, distCoeffs |-> D,
                         savedMatrix |-> IF s.ret THEN K ELSE last.savedMatrix,
                         savedDist |-> IF s.ret THEN D ELSE last.savedDist,
                         written |-> s.ret \/ last.written]
    /\ UNCHANGED <<boardWidth, boardHeight, inputDir, folder, cornersFile,
                   stereoFile, rectifyFile, recon, cloud, modelFile, run, calls, outputs>>

\* one call of loadCalibrationData on that file, into the caller's matrices
LoadCalibrationData ==
    /\ LET l == loadCalibrationData(cameraFile["left"], last.cameraMatrix, last.distCoeffs)
       IN  last' = [last EXCEPT !.op = "loadCalib", !.ret = l.ret,
                                !.cameraMatrix = l.cameraMatrix,
                                !.distCoeffs = l.distCoeffs]
    /\ UNCHANGED <<boardWidth, boardHeight, inputDir, folder, cornersFile, cameraFile,
                   stereoFile, rectifyFile, recon, cloud, modelFile, run, calls, outputs>>

(***************************************************************************)
(* stereo_calibration.cpp                                                  *)
(***************************************************************************)
\* the views cv::stereoCalibrate pairs: the i-th left with the i-th right observation
Pairs(leftPts, rightPts) ==
    [i \in 1..Len(leftPts) |-> <<leftPts[i], rightPts[i]>>]

StereoRecordEstimatesIntrinsics(leftPts, rightPts) ==
    [kind |-> "stereo",
     left_camera_matrix |-> <<"K", leftPts>>,
     left_distortion_coefficients |-> <<"D", leftPts>>,
     right_camera_matrix |-> <<"K", rightPts>>,
     right_distortion_coefficients |-> <<"D", rightPts>>,
     geometry |-> Pairs(leftPts, rightPts)]

\* saveStereoCalibrationData (lines 161-197): the intrinsics passed to the solver
\* (cv::Mat::eye, cv::Mat::zeros) and R, T, E, F as estimated from the paired views
StereoRecord(leftPts, rightPts) ==
    [kind |-> "stereo",
     left_camera_matrix |-> "eye", left_distortion_coefficients |-> "zeros",
     right_camera_matrix |-> "eye", right_distortion_coefficients |-> "zeros",
     geometry |-> Pairs(leftPts, rightPts)]

\* the rectification data of lines 100-118, computed from R and T
RectifyRecord(leftPts, rightPts) ==
    [kind |-> "rectify", Q |-> <<"Q", Pairs(leftPts, rightPts)>>]

StereoFailed(oldS, oldR, invoked, accepted) ==
    [ret |-> FALSE, stereo |-> oldS, rectify |-> oldR, wroteStereo |-> FALSE,
     wroteRectify |-> FALSE, solverInvoked |-> invoked, accepted |-> accepted]

calibrateStereoCameraSkipsSizeCheck(lc, rc, oldS, oldR, w, h, mk, solver, save, rect, rectWr) ==
    IF mk = "throws" \/ lc.kind # "corners" \/ rc.kind # "corners"
    THEN StereoFailed(oldS, oldR, FALSE, FALSE)
    ELSE IF lc.corners = <<>> \/ rc.corners = <<>>
    THEN StereoFailed(oldS, oldR, FALSE, FALSE)
    ELSE IF solver = "throws" \/ save = "openfail"
    THEN StereoFailed(oldS, oldR, TRUE, TRUE)
    ELSE [ret |-> rect = "ok",
          stereo |-> [kind |-> "stereo", geometry |-> <<lc.corners, rc.corners>>],
          rectify |-> oldR, wroteStereo |-> TRUE, wroteRectify |-> FALSE,
          solverInvoked |-> TRUE, accepted |-> TRUE]

\* StereoCalibration::calibrateStereoCamera
\*   lc, rc : the left and right corners.yml;  oldS, oldR : stereo_calibration.yml and
\*   stereo_rectify.yml before the call
\*   mk, solver, save, rect, rectWr : outcomes of create_directories, cv::stereoCalibrate,
\*   opening stereo_calibration.yml for writing, cv::stereoRectify, and opening
\*   stereo_rectify.yml for writing (operator<< on an unopened FileStorage is a no-op)
calibrateStereoCamera(lc, rc, oldS, oldR, w, h, mk, solver, save, rect, rectWr) ==
    IF mk = "throws" THEN StereoFailed(oldS, oldR, FALSE, FALSE)
    ELSE IF lc.kind # "corners" THEN StereoFailed(oldS, oldR, FALSE, FALSE)
    ELSE IF rc.kind # "corners" THEN StereoFailed(oldS, oldR, FALSE, FALSE)
    ELSE IF lc.corners = <<>> \/ rc.corners = <<>>
         THEN StereoFailed(oldS, oldR, FALSE, FALSE)
    ELSE IF Len(lc.corners) # Len(rc.corners)
         THEN StereoFailed(oldS, oldR, FALSE, FALSE)
    ELSE IF \/ SolverThrows(lc.corners, w, h, solver)
            \/ SolverThrows(rc.corners, w, h, solver)
         THEN StereoFailed(oldS, oldR, TRUE, TRUE)
    ELSE IF save = "openfail" THEN StereoFailed(oldS, oldR, TRUE, TRUE)  \* lines 89-95
    ELSE LET written == StereoRecord(lc.corners, rc.corners)
         IN  IF rect = "throws"
             THEN \* cv::stereoRectify raises after the save: catch at line 124
                  [ret |-> FALSE, stereo |-> written, rectify |-> oldR,
                   wroteStereo |-> TRUE, wroteRectify |-> FALSE,
                   solverInvoked |-> TRUE, accepted |-> TRUE]
             ELSE [ret |-> TRUE, stereo |-> written,
                   rectify |-> IF rectWr = "ok"
                               THEN RectifyRecord(lc.corners, rc.corners) ELSE oldR,
                   wroteStereo |-> TRUE, wroteRectify |-> rectWr = "ok",
                   solverInvoked |-> TRUE, accepted |-> TRUE]

CalibrateStereoCamera ==
    \E locL \in Locs, locR \in Locs,
       fault \in {"none", "mk", "solver", "save", "rect", "rectWr"} :
        LET mk == IF fault = "mk" THEN "throws" ELSE "ok"
            solver == IF fault = "solver" THEN "throws" ELSE "ok"
            save == IF fault = "save" THEN "openfail" ELSE "ok"
            rect == IF fault = "rect" THEN "throws" ELSE "ok"
            rectWr == IF fault = "rectWr" THEN "openfail" ELSE "ok"
            r == calibrateStereoCamera(cornersFile["left"][locL], cornersFile["right"][locR],
                                       stereoFile, rectifyFile, boardWidth, boardHeight,
                                       mk, solver, save, rect, rectWr)
        IN  /\ stereoFile' = r.stereo
            /\ rectifyFile' = r.rectify
            /\ last' = [op |-> "stereo", locL |-> locL, locR |-> locR, ret |-> r.ret,
                        wroteStereo |-> r.wroteStereo, wroteRectify |-> r.wroteRectify,
                        beforeStereo |-> stereoFile, beforeRectify |-> rectifyFile,
                        solverInvoked |-> r.solverInvoked, accepted |-> r.accepted,
                        fault |-> fault]
            /\ UNCHANGED <<boardWidth, boardHeight, inputDir, folder, cornersFile,
                           cameraFile, recon, cloud, modelFile, run, calls, outputs>>

(***************************************************************************)
(* image_resize.cpp and stereo_calibration_program.cpp.  runCalibration is *)
(* followed stage by stage: run.pc is the stage about to run, run.trace    *)
(* the stages that were invoked, each with what its caller got back:       *)
(* "true", "false", or "throws" for an exception that left the stage.      *)
(* The output tree is outputPath; its folders corners/<side> are the       *)
(* corner folders of cornersFile, calibration/<side> holds cameraFile and  *)
(* calibration/stereo holds stereoFile and rectifyFile.                    *)
(***************************************************************************)
\* resizeImage (lines 23-115): the images written to outputFolder; true iff there is one
resizeImage(dir, entries, mk) ==
    IF mk = "throws" THEN [ret |-> FALSE, out |-> <<>>]        \* outer catch
    ELSE IF dir = "missing" THEN [ret |-> FALSE, out |-> <<>>] \* !exists(inputFolder)
    ELSE IF dir = "file" THEN [ret |-> FALSE, out |-> <<>>]    \* directory_iterator throws
    ELSE LET out == SelectSeq(entries, LAMBDA e : e.regular /\ IsImageExt(e.ext)
                                                  /\ imread(e))
         IN  [ret |-> Len(out) > 0, out |-> out]

\* the entries validateInputPaths counts (lines 119-124, 128-133): no ".tiff" here
CountsAsImage(e) == e.regular /\ ToLower(e.ext) \in {".jpg", ".jpeg", ".png", ".bmp"}

\* validateInputPaths (lines 106-146): both exists() tests come first, then the two
\* directory_iterator loops, which are in no try block
validateInputPaths(dirL, entriesL, dirR, entriesR) ==
    IF dirL = "missing" THEN "false"
    ELSE IF dirR = "missing" THEN "false"
    ELSE IF dirL = "file" THEN "throws"
    ELSE IF dirR = "file" THEN "throws"
    ELSE IF /\ \E i \in 1..Len(entriesL) : CountsAsImage(entriesL[i])
            /\ \E i \in 1..Len(entriesR) : CountsAsImage(entriesR[i])
         THEN "true" ELSE "false"

\* rectifyImages (lines 267-296): the two create_directories calls are outside the
\* try block; a failing copy is caught
rectifyImages(mk, leftUndistorted, rightUndistorted, copy) ==
    IF mk = "throws" THEN "throws"
    ELSE IF leftUndistorted /\ rightUndistorted
         THEN IF copy = "throws" THEN "false" ELSE "true"
         ELSE "false"

\* the text of a bool a stage returned
Returned(b) == IF b THEN "true" ELSE "false"

\* the stages of runCalibration in the order of lines 59-97
Stages == <<"validate", "preprocess", "detect", "mono", "stereo", "rectify", "model3D">>

\* a program object on which runCalibration was not called
NotRun ==
    [pc |-> "idle", trace |-> <<>>, ret |-> FALSE,
     preprocessed |-> [s \in Sides |-> <<>>],
     undistortedDir |-> [s \in Sides |-> FALSE],
     opened |-> <<>>, faulty |-> FALSE]

StagedIgnoresFailure(r, stage, result, next, fault) ==
    [r EXCEPT !.trace = Append(@, [stage |-> stage, result |-> result]),
              !.faulty = @ \/ fault # "none",
              !.pc = IF result = "throws" THEN "thrown" ELSE next,
              !.ret = FALSE]

\* the run after a mandatory stage gave `result`: `if (!stage()) return false;`
\* run.faulty tells whether a library or file-system call of the run failed so far
Staged(r, stage, result, next, fault) ==
    [r EXCEPT !.trace = Append(@, [stage |-> stage, result |-> result]),
              !.faulty = @ \/ fault # "none",
              !.pc = IF result = "true" THEN next
                     ELSE IF result = "false" THEN "done" ELSE "thrown",
              !.ret = FALSE]

Disk == <<boardWidth, boardHeight, inputDir, folder, last, cloud, modelFile,
          calls, outputs>>

\* lines 53-64: validateInputPaths, then createOutputDirectories, whose
\* create_directories calls are in no try block either
ValidateInputPaths ==
    /\ run.pc = "validate"
    /\ \E mk \in {"ok", "throws"} :
         LET v == validateInputPaths(inputDir["left"], folder["left"],
                                     inputDir["right"], folder["right"])
             s == Staged(run, "validate", v, "preprocess",
                         IF v = "true" /\ mk = "throws" THEN "mk" ELSE "none")
         IN  run' = IF v = "true" /\ mk = "throws" THEN [s EXCEPT !.pc = "thrown"] ELSE s
    /\ UNCHANGED <<Disk, cornersFile, cameraFile, stereoFile, rectifyFile, recon>>

\* lines 66-70 and 166-189: both folders are resized, whatever the first call returned
PreprocessImages ==
    /\ run.pc = "preprocess"
    /\ \E fault \in {"none", "mkLeft", "mkRight"} :
         LET l == resizeImage(inputDir["left"], folder["left"],
                              IF fault = "mkLeft" THEN "throws" ELSE "ok")
             r == resizeImage(inputDir["right"], folder["right"],
                              IF fault = "mkRight" THEN "throws" ELSE "ok")
         IN  run' = Staged([run EXCEPT !.preprocessed =
                                          [s \in Sides |-> IF s = "left" THEN l.out ELSE r.out]],
                           "preprocess", Returned(l.ret /\ r.ret), "detect", fault)
    /\ UNCHANGED <<Disk, cornersFile, cameraFile, stereoFile, rectifyFile, recon>>

\* lines 72-76 and 191-212: detectAndDrawCorners on preprocessed/<side> with the output
\* folder corners/<side>, for both sides
DetectCorners ==
    /\ run.pc = "detect"
    /\ \E fault \in {"none", "mk", "wr"} :
         LET mk == IF fault = "mk" THEN "throws" ELSE "ok"
             wr == IF fault = "wr" THEN "openfail" ELSE "ok"
             d == [s \in Sides |->
                     detectAndDrawCorners("dir", run.preprocessed[s],
                                          cornersFile[s]["corner_data"],
                                          boardWidth, boardHeight, mk, wr)]
         IN  /\ cornersFile' = [s \in Sides |->
                                  [cornersFile[s] EXCEPT !["corner_data"] = d[s].file]]
             /\ run' = Staged(run, "detect", Returned(d["left"].ret /\ d["right"].ret),
                              "mono", fault)
    /\ UNCHANGED <<Disk, cameraFile, stereoFile, rectifyFile, recon>>

\* lines 78-82 and 214-245: calibrateCamera with cornerDataPath = corners/<side>, so
\* the file it opens is corners/<side>/corners.yml; run.opened lists the corner files
\* the calibration stages opened
CalibrateMonocular ==
    /\ run.pc = "mono"
    /\ \E fault \in {"none", "mk", "solver", "save"} :
         LET mk == IF fault = "mk" THEN "throws" ELSE "ok"
             solver == IF fault = "solver" THEN "throws" ELSE "ok"
             save == IF fault = "save" THEN "openfail" ELSE "ok"
             c == [s \in Sides |->
                     calibrateCamera(cornersFile[s]["root"], "dir", run.preprocessed[s],
                                     cameraFile[s], boardWidth, boardHeight, TRUE,
                                     mk, solver, save)]
         IN  /\ cameraFile' = [s \in Sides |-> c[s].file]
             /\ run' = Staged([run EXCEPT !.undistortedDir = [s \in Sides |-> mk = "ok"],
                                          !.opened = @ \o <<"root", "root">>],
                              "mono", Returned(c["left"].ret /\ c["right"].ret), "stereo",
                              fault)
    /\ UNCHANGED <<Disk, cornersFile, stereoFile, rectifyFile, recon>>

\* lines 84-88 and 247-265: calibrateStereoCamera on corners/left and corners/right
CalibrateStereo ==
    /\ run.pc = "stereo"
    /\ \E fault \in {"none", "mk", "solver", "save", "rect", "rectWr"} :
         LET r == calibrateStereoCamera(cornersFile["left"]["root"],
                                        cornersFile["right"]["root"],
                                        stereoFile, rectifyFile, boardWidth, boardHeight,
                                        IF fault = "mk" THEN "throws" ELSE "ok",
                                        IF fault = "solver" THEN "throws" ELSE "ok",
                                        IF fault = "save" THEN "openfail" ELSE "ok",
                                        IF fault = "rect" THEN "throws" ELSE "ok",
                                        IF fault = "rectWr" THEN "openfail" ELSE "ok")
         IN  /\ stereoFile' = r.stereo
             /\ rectifyFile' = r.rectify
             /\ run' = Staged([run EXCEPT !.opened = @ \o <<"root", "root">>],
                              "stereo", Returned(r.ret), "rectify", fault)
    /\ UNCHANGED <<Disk, cornersFile, cameraFile, recon>>

\* lines 90-94 and 267-296
RectifyImages ==
    /\ run.pc = "rectify"
    /\ \E fault \in {"none", "mk", "copy"} :
         run' = Staged(run, "rectify",
                       rectifyImages(IF fault = "mk" THEN "throws" ELSE "ok",
                                     run.undistortedDir["left"], run.undistortedDir["right"],
                                     IF fault = "copy" THEN "throws" ELSE "ok"),
                       "model3D", fault)
    /\ UNCHANGED <<Disk, cornersFile, cameraFile, stereoFile, rectifyFile, recon>>

\* lines 96-102 and 298-314: without the two scene images the stage returns false at
\* once; with them reconstruct3D is called on calibration/stereo in PLY_FORMAT
Generate3DModel ==
    /\ run.pc = "model3D"
    /\ \E scenes \in BOOLEAN, mk \in {"ok", "throws"} :
         IF scenes
         THEN /\ recon' = [NotCalled EXCEPT !.outputFormat = PLY_FORMAT,
                                            !.pc = IF mk = "ok" THEN "loadImages" ELSE "done"]
              /\ run' = [run EXCEPT !.pc = "reconstruct3D"]
         ELSE /\ recon' = recon
              /\ run' = [run EXCEPT !.trace = Append(@, [stage |-> "model3D",
                                                         result |-> "false"]),
                                    !.pc = "done", !.ret = TRUE]
    /\ UNCHANGED <<Disk, cornersFile, cameraFile, stereoFile, rectifyFile>>

\* lines 316-325 and 97-102: reconstruct3D returned; its result only selects a message
Finish3DModel ==
    /\ run.pc = "reconstruct3D"
    /\ recon.pc = "done"
    /\ run' = [run EXCEPT !.trace = Append(@, [stage |-> "model3D",
                                               result |-> Returned(recon.ret)]),
                          !.pc = "done", !.ret = TRUE]
    /\ UNCHANGED <<Disk, cornersFile, cameraFile, stereoFile, rectifyFile, recon>>

(***************************************************************************)
(* Two calls of reconstruct3D running at once, e.g. on two threads.  The   *)
(* locals of a call (images, disparity map, cloud) are its own; what the   *)
(* calls share is the file system.  A call's steps here are its file       *)
(* writes: the three cv::imwrite calls and, inside savePointCloud, the     *)
(* creation of the output file and one write per line (every line ends in  *)
(* std::endl, which flushes the stream).                                   *)
(***************************************************************************)
Invocations == {1, 2}

OutputPaths == {"out_a", "out_b"}

ImageNames == {"rectified_left.jpg", "rectified_right.jpg", "disparity_map.jpg"}

FileNames == ImageNames \cup {OutputFile(f) : f \in KnownFormats}

\* lines 60, 61, 75: the image a call encodes from its own input pair
ImageOf(i) == [kind |-> "image", of |-> i]

\* the text lines savePointCloud writes, in order (lines 274-301); the ten header
\* lines of a PLY file are lines 275-284
HeaderLine(text, n) == [header |-> text, n |-> n]

PlyHeaderLines(n) ==
    <<HeaderLine("ply", 0), HeaderLine("format ascii 1.0", 0),
      HeaderLine("element vertex", n), HeaderLine("property float x", 0),
      HeaderLine("property float y", 0), HeaderLine("property float z", 0),
      HeaderLine("property uchar red", 0), HeaderLine("property uchar green", 0),
      HeaderLine("property uchar blue", 0), HeaderLine("end_header", 0)>>

TextLines(file) ==
    (IF file.header = NoHeader THEN <<>> ELSE PlyHeaderLines(file.header.vertex))
      \o file.lines

TextFile(lines) == [kind |-> "text", lines |-> lines]

\* the part of a file no writer has filled: a stream that writes past the end of a
\* file another stream has truncated leaves a gap before its line
Hole == [hole |-> TRUE]

\* a stream's write of one line at its own position; positions count lines, the
\* lines of the two calls being of equal width
WriteAt(lines, k, line) ==
    [j \in 1..(IF Len(lines) > k THEN Len(lines) ELSE k) |->
       IF j = k THEN line ELSE IF j <= Len(lines) THEN lines[j] ELSE Hole]

\* the file a call's savePointCloud writes when nothing else touches it
Result(c) ==
    savePointCloud(c.points, c.colors, OutputFile(c.format), c.format, "ok").file

NoCalls == [i \in Invocations |->
              [outputPath |-> "out_a", format |-> PLY_FORMAT, points |-> <<>>,
               colors |-> <<>>, pc |-> "idle", offset |-> 0]]

NoOutputs == [p \in OutputPaths |-> [n \in FileNames |-> NoFile]]

\* cv::imwrite of one of the three images, which the call writes in this order
Imwrite(i, name, next) ==
    /\ calls[i].pc = name
    /\ outputs' = [outputs EXCEPT ![calls[i].outputPath][name] = ImageOf(i)]
    /\ calls' = [calls EXCEPT ![i].pc = next]

\* line 60
ImwriteRectifiedLeft(i) == Imwrite(i, "rectified_left.jpg", "rectified_right.jpg")

\* line 61
ImwriteRectifiedRight(i) == Imwrite(i, "rectified_right.jpg", "disparity_map.jpg")

\* line 75
ImwriteDisparityMap(i) == Imwrite(i, "disparity_map.jpg", "open")

\* line 268: std::ofstream file(filename) creates the file or truncates the one
\* that is there; the stream starts at position 0
OpenOutputFile(i) ==
    /\ calls[i].pc = "open"
    /\ outputs' = [outputs EXCEPT ![calls[i].outputPath][OutputFile(calls[i].format)] =
                                     TextFile(<<>>)]
    /\ calls' = [calls EXCEPT ![i].pc = "write", ![i].offset = 0]

\* one `file << ... << std::endl` of lines 275-300: the line goes to the file at the
\* stream's position, whatever the file holds by now
WriteLine(i) ==
    LET c == calls[i]
        text == TextLines(Result(c))
        name == OutputFile(c.format)
        k == c.offset + 1
    IN  /\ c.pc = "write"
        /\ k <= Len(text)
        /\ outputs' = [outputs EXCEPT ![c.outputPath][name] =
                         TextFile(WriteAt(outputs[c.outputPath][name].lines, k, text[k]))]
        /\ calls' = [calls EXCEPT ![i].offset = k]

\* lines 303-304 and 169-170: the stream is closed and the call returns true
CloseAndReturn(i) ==
    /\ calls[i].pc = "write"
    /\ calls[i].offset = Len(TextLines(Result(calls[i])))
    /\ calls' = [calls EXCEPT ![i].pc = "done"]
    /\ UNCHANGED outputs

(***************************************************************************)
(* Corner extraction alone: one camera's folder with every kind of entry.  *)
(***************************************************************************)
InitCorner ==
    /\ boardWidth \in 2..MaxBoardWidth
    /\ boardHeight \in 2..MaxBoardHeight
    /\ \E d \in {"missing", "file", "dir"} :
         inputDir = [s \in Sides |-> IF s = "left" THEN d ELSE "missing"]
    /\ \E l \in Listings(EntryKinds, 0..MaxImages) :
         folder = [s \in Sides |-> IF s = "left" /\ inputDir[s] = "dir" THEN l ELSE <<>>]
    /\ cornersFile = [s \in Sides |-> [l \in Locs |-> NoFile]]
    /\ cameraFile = [s \in Sides |-> NoFile]
    /\ stereoFile = NoFile
    /\ rectifyFile = NoFile
    /\ last = Idle
    /\ recon = NotCalled
    /\ cloud = EmptyCloud
    /\ modelFile = NoFile
    /\ run = NotRun
    /\ calls = NoCalls
    /\ outputs = NoOutputs

NextCorner == \E side \in Sides : DetectAndDrawCorners(side)

SpecCorner == InitCorner /\ [][NextCorner]_vars

(***************************************************************************)
(* Stereo calibration over one output tree: both cameras photographed the  *)
(* same MaxPairs captures (the folders list them in the same order);       *)
(* F/corners.yml may pre-exist in the corner folders, and the output path  *)
(* may hold the two files of an earlier run.                               *)
(***************************************************************************)
EarlierViews == <<Grid(0, MaxBoardWidth * MaxBoardHeight)>>

InitStereo ==
    /\ boardWidth = MaxBoardWidth
    /\ boardHeight = MaxBoardHeight
    /\ inputDir = [s \in Sides |-> "dir"]
    /\ folder \in [Sides -> Listings(PlainKinds, {MaxPairs})]
    /\ \E f \in {NoFile, Unreadable, EmptyDataset} :
         cornersFile = [s \in Sides |-> [l \in Locs |-> IF l = "root" THEN f ELSE NoFile]]
    /\ cameraFile = [s \in Sides |-> NoFile]
    /\ \E earlier \in BOOLEAN :
         /\ stereoFile = IF earlier THEN StereoRecord(EarlierViews, EarlierViews) ELSE NoFile
         /\ rectifyFile = IF earlier THEN RectifyRecord(EarlierViews, EarlierViews) ELSE NoFile
    /\ last = Idle
    /\ recon = NotCalled
    /\ cloud = EmptyCloud
    /\ modelFile = NoFile
    /\ run = NotRun
    /\ calls = NoCalls
    /\ outputs = NoOutputs

NextStereo ==
    \/ \E side \in Sides : DetectAndDrawCorners(side)
    \/ CalibrateStereoCamera

SpecStereo == InitStereo /\ [][NextStereo]_vars

(***************************************************************************)
(* Monocular calibration of the left camera.                               *)
(***************************************************************************)
InitMono ==
    /\ boardWidth \in 2..MaxBoardWidth
    /\ boardHeight \in 2..MaxBoardHeight
    /\ inputDir = [s \in Sides |-> IF s = "left" THEN "dir" ELSE "missing"]
    /\ \E l \in Listings(PlainKinds, 0..MaxPairs) :
         folder = [s \in Sides |-> IF s = "left" THEN l ELSE <<>>]
    /\ \E f \in {NoFile, Unreadable, EmptyDataset} :
         cornersFile = [s \in Sides |-> [l \in Locs |-> IF l = "root" /\ s = "left"
                                                        THEN f ELSE NoFile]]
    /\ cameraFile = [s \in Sides |-> NoFile]
    /\ stereoFile = NoFile
    /\ rectifyFile = NoFile
    /\ last = Idle
    /\ recon = NotCalled
    /\ cloud = EmptyCloud
    /\ modelFile = NoFile
    /\ run = NotRun
    /\ calls = NoCalls
    /\ outputs = NoOutputs

NextMono ==
    \/ DetectAndDrawCorners("left")
    \/ CalibrateCamera("left")

SpecMono == InitMono /\ [][NextMono]_vars

(***************************************************************************)
(* One call of reconstruct3D over a calibration folder that holds the two  *)
(* files of a stereo calibration, holds unreadable ones, or lacks them.    *)
(***************************************************************************)
SampleViews == <<Grid(1, MaxBoardWidth * MaxBoardHeight)>>

InitRecon ==
    /\ boardWidth = MaxBoardWidth
    /\ boardHeight = MaxBoardHeight
    /\ inputDir = [s \in Sides |-> "missing"]
    /\ folder = [s \in Sides |-> <<>>]
    /\ cornersFile = [s \in Sides |-> [l \in Locs |-> NoFile]]
    /\ cameraFile = [s \in Sides |-> NoFile]
    /\ stereoFile \in {NoFile, Unreadable, StereoRecord(SampleViews, SampleViews)}
    /\ rectifyFile \in {NoFile, Unreadable, RectifyRecord(SampleViews, SampleViews)}
    /\ last = Idle
    /\ recon = NotCalled
    /\ cloud = EmptyCloud
    /\ modelFile = NoFile
    /\ run = NotRun
    /\ calls = NoCalls
    /\ outputs = NoOutputs

NextRecon ==
    \/ Reconstruct3D
    \/ LoadImages
    \/ LoadRig
    \/ Rectify
    \/ Disparity
    \/ LoadQ
    \/ Generate
    \/ Rescale
    \/ Filter
    \/ Save

SpecRecon == InitRecon /\ [][NextRecon]_vars

(***************************************************************************)
(* Writing and reading model files: a caller holds any cloud of up to      *)
(* MaxPixels points and calls savePointCloud and loadModel in any order.   *)
(***************************************************************************)
\* a coordinate with seven significant digits: 100000.5 units
PreciseCoord == 2 * 100000 + 1

CloudPointVals == PointVals \cup {Point(PreciseCoord)}

\* the clouds of n points; the i-th point has the colour of pixel i
CloudsOf(n) ==
    {[points |-> pts, colors |-> [i \in 1..n |-> ColorAt(i)]] :
       pts \in [1..n -> CloudPointVals]}

Clouds == UNION {CloudsOf(n) : n \in 0..MaxPixels}

InitModel ==
    /\ boardWidth = MaxBoardWidth
    /\ boardHeight = MaxBoardHeight
    /\ inputDir = [s \in Sides |-> "missing"]
    /\ folder = [s \in Sides |-> <<>>]
    /\ cornersFile = [s \in Sides |-> [l \in Locs |-> NoFile]]
    /\ cameraFile = [s \in Sides |-> NoFile]
    /\ stereoFile = NoFile
    /\ rectifyFile = NoFile
    /\ last = NoModelCall
    /\ recon = NotCalled
    /\ cloud \in Clouds
    /\ modelFile = NoFile
    /\ run = NotRun
    /\ calls = NoCalls
    /\ outputs = NoOutputs

NextModel ==
    \/ SavePointCloud
    \/ LoadModel

SpecModel == InitModel /\ [][NextModel]_vars

(***************************************************************************)
(* A caller's cloud under generatePointCloud, the rescaling, any number of *)
(* filterPointCloud calls and loadModel on a model file found on disk.     *)
(***************************************************************************)
SampleCloud ==
    [points |-> <<Point(1), NonFinite>>, colors |-> <<ColorAt(1), ColorAt(2)>>]

\* what savePointCloud left on disk for SampleCloud: nothing, a PLY file, an XYZ
\* file, the empty file of an unknown format
DiskFiles ==
    {NoFile} \cup
    {savePointCloud(SampleCloud.points, SampleCloud.colors, OutputFile(f), f, "ok").file :
       f \in {PLY_FORMAT, XYZ_FORMAT, XYZ_FORMAT + 1}}

InitCloud ==
    /\ boardWidth = MaxBoardWidth
    /\ boardHeight = MaxBoardHeight
    /\ inputDir = [s \in Sides |-> "missing"]
    /\ folder = [s \in Sides |-> <<>>]
    /\ cornersFile = [s \in Sides |-> [l \in Locs |-> NoFile]]
    /\ cameraFile = [s \in Sides |-> NoFile]
    /\ stereoFile = NoFile
    /\ rectifyFile = NoFile
    /\ last = NoModelCall
    /\ recon = NotCalled
    /\ cloud = EmptyCloud
    /\ modelFile \in DiskFiles
    /\ run = NotRun
    /\ calls = NoCalls
    /\ outputs = NoOutputs

NextCloud ==
    \/ GeneratePointCloud
    \/ AutoRescale
    \/ FilterPointCloud
    \/ LoadModel

SpecCloud == InitCloud /\ [][NextCloud]_vars

(***************************************************************************)
(* Writing and reading camera_calibration.yml: the path holds no file, an  *)
(* unreadable one or a YAML file of another stage, and a caller saves and  *)
(* loads in any order.                                                     *)
(***************************************************************************)
InitCamera ==
    /\ boardWidth = MaxBoardWidth
    /\ boardHeight = MaxBoardHeight
    /\ inputDir = [s \in Sides |-> "missing"]
    /\ folder = [s \in Sides |-> <<>>]
    /\ cornersFile = [s \in Sides |-> [l \in Locs |-> NoFile]]
    /\ \E f \in {NoFile, Unreadable, StereoRecord(SampleViews, SampleViews)} :
         cameraFile = [s \in Sides |-> IF s = "left" THEN f ELSE NoFile]
    /\ stereoFile = NoFile
    /\ rectifyFile = NoFile
    /\ last = NoCalibCall
    /\ recon = NotCalled
    /\ cloud = EmptyCloud
    /\ modelFile = NoFile
    /\ run = NotRun
    /\ calls = NoCalls
    /\ outputs = NoOutputs

NextCamera ==
    \/ SaveCalibrationData
    \/ LoadCalibrationData

SpecCamera == InitCamera /\ [][NextCamera]_vars

(***************************************************************************)
(* One run of StereoCalibrationProgram::runCalibration.  Each input path   *)
(* is missing, a regular file, or a folder of up to MaxPairs entries; the  *)
(* output tree is empty or holds, in corners/left and corners/right, a     *)
(* corners.yml someone placed there.                                       *)
(***************************************************************************)
ProgramKinds ==
    { [regular |-> TRUE, ext |-> ".jpg",  content |-> "board"],
      [regular |-> TRUE, ext |-> ".jpg",  content |-> "noboard"],
      [regular |-> TRUE, ext |-> ".tiff", content |-> "board"] }

\* a dataset of one observation, as detectAndDrawCorners writes it
PlacedDataset ==
    CornerRecord(MaxBoardWidth, MaxBoardHeight,
                 [EmptyAcc EXCEPT !.allCorners = EarlierViews, !.imageFiles = <<0>>,
                                  !.successCount = 1])

InitProgram ==
    /\ boardWidth = MaxBoardWidth
    /\ boardHeight = MaxBoardHeight
    /\ inputDir \in [Sides -> {"missing", "file", "dir"}]
    /\ \E l \in [Sides -> Listings(ProgramKinds, 0..MaxPairs)] :
         folder = [s \in Sides |-> IF inputDir[s] = "dir" THEN l[s] ELSE <<>>]
    /\ \E f \in {NoFile, PlacedDataset} :
         cornersFile = [s \in Sides |-> [l \in Locs |-> IF l = "root" THEN f ELSE NoFile]]
    /\ cameraFile = [s \in Sides |-> NoFile]
    /\ stereoFile = NoFile
    /\ rectifyFile = NoFile
    /\ last = Idle
    /\ recon = NotCalled
    /\ cloud = EmptyCloud
    /\ modelFile = NoFile
    /\ run = [NotRun EXCEPT !.pc = "validate"]
    /\ calls = NoCalls
    /\ outputs = NoOutputs

NextProgram ==
    \/ ValidateInputPaths
    \/ PreprocessImages
    \/ DetectCorners
    \/ CalibrateMonocular
    \/ CalibrateStereo
    \/ RectifyImages
    \/ Generate3DModel
    \/ LoadImages
    \/ LoadRig
    \/ Rectify
    \/ Disparity
    \/ LoadQ
    \/ Generate
    \/ Rescale
    \/ Filter
    \/ Save
    \/ Finish3DModel

SpecProgram == InitProgram /\ [][NextProgram]_vars

(***************************************************************************)
(* Monocular calibration over an image folder that also holds files no     *)
(* image can be read from (residual images are drawn on the folder's       *)
(* files).                                                                 *)
(***************************************************************************)
ResidualKinds == { k \in EntryKinds : k.content # "bad" }

InitResidual ==
    /\ boardWidth = MaxBoardWidth
    /\ boardHeight = MaxBoardHeight
    /\ inputDir = [s \in Sides |-> IF s = "left" THEN "dir" ELSE "missing"]
    /\ \E l \in Listings(ResidualKinds, 0..MaxPairs) :
         folder = [s \in Sides |-> IF s = "left" THEN l ELSE <<>>]
    /\ cornersFile = [s \in Sides |-> [l \in Locs |-> NoFile]]
    /\ cameraFile = [s \in Sides |-> NoFile]
    /\ stereoFile = NoFile
    /\ rectifyFile = NoFile
    /\ last = Idle
    /\ recon = NotCalled
    /\ cloud = EmptyCloud
    /\ modelFile = NoFile
    /\ run = NotRun
    /\ calls = NoCalls
    /\ outputs = NoOutputs

NextResidual ==
    \/ DetectAndDrawCorners("left")
    \/ CalibrateCamera("left")

SpecResidual == InitResidual /\ [][NextResidual]_vars

(***************************************************************************)
(* Two concurrent calls of reconstruct3D.  Each call has its own input     *)
(* pair, hence its own cloud (of one or two points, the first call's at    *)
(* x = 1.0 and the second's at x = 2.0), its output format and its output  *)
(* path, which may or may not be the other call's.                         *)
(***************************************************************************)
CloudOfCall(i, n) ==
    [points |-> [k \in 1..n |-> Point(2 * i)], colors |-> [k \in 1..n |-> ColorAt(k)]]

InitConcurrent ==
    /\ boardWidth = MaxBoardWidth
    /\ boardHeight = MaxBoardHeight
    /\ inputDir = [s \in Sides |-> "dir"]
    /\ folder = [s \in Sides |-> <<>>]
    /\ cornersFile = [s \in Sides |-> [l \in Locs |-> NoFile]]
    /\ cameraFile = [s \in Sides |-> NoFile]
    /\ stereoFile = NoFile
    /\ rectifyFile = NoFile
    /\ last = Idle
    /\ recon = NotCalled
    /\ cloud = EmptyCloud
    /\ modelFile = NoFile
    /\ run = NotRun
    /\ \E path \in [Invocations -> OutputPaths],
          format \in [Invocations -> KnownFormats],
          size \in [Invocations -> 1..MaxPixels] :
         calls = [i \in Invocations |->
                    [outputPath |-> path[i], format |-> format[i],
                     points |-> CloudOfCall(i, size[i]).points,
                     colors |-> CloudOfCall(i, size[i]).colors,
                     pc |-> "rectified_left.jpg", offset |-> 0]]
    /\ outputs = NoOutputs

NextConcurrent ==
    \E i \in Invocations :
       /\ \/ ImwriteRectifiedLeft(i)
          \/ ImwriteRectifiedRight(i)
          \/ ImwriteDisparityMap(i)
          \/ OpenOutputFile(i)
          \/ WriteLine(i)
          \/ CloseAndReturn(i)
       /\ UNCHANGED <<boardWidth, boardHeight, inputDir, folder, cornersFile, cameraFile,
                      stereoFile, rectifyFile, last, recon, cloud, modelFile, run>>

SpecConcurrent == InitConcurrent /\ [][NextConcurrent]_vars

(***************************************************************************)
(* Claims about corner extraction (checked under SpecCorner).              *)
(***************************************************************************)
Ids(entries) == [i \in 1..Len(entries) |-> entries[i].id]

\* extensions, as spelled on disk, that the whitelist accepts case-insensitively
Whitelisted(e) == e.regular /\ e.ext \in {".jpg", ".JPG", ".jpeg", ".PNG", ".bmp", ".tiff"}

Succeeds(e) == Whitelisted(e) /\ e.content = "board"

\* the call of `last` got as far as listing the input folder
Listed == last.op = "detect" /\ last.mk = "ok" /\ inputDir[last.side] = "dir"

\* C3: detectAndDrawCorners returns true iff at least one image of the input folder
\* yielded a valid corner observation in the call; a missing or empty folder, a path
\* that is no directory, or zero detections make it return false (a boolean, no raise).
C3_ReturnsTrueIffSomeObservation ==
    last.op = "detect" =>
        /\ last.ret \in BOOLEAN
        /\ last.ret <=> (Listed /\ \E i \in 1..Len(folder[last.side]) :
                                       Succeeds(folder[last.side][i]))
        /\ last.ret <=> Len(last.acc.allCorners) > 0

C3_Witness ==
    /\ last.op = "detect" /\ last.ret
    /\ \E i \in 1..Len(folder[last.side]) :
          Whitelisted(folder[last.side][i]) /\ ~Succeeds(folder[last.side][i])

\* C4: corners.yml is created or changed only by a call that accepted at least one
\* observation; on an empty input folder the call returns false, processes zero
\* images and leaves corners.yml as it was (absent stays absent).
C4_CornersFileOnlyOnSuccess ==
    last.op = "detect" =>
        /\ last.wrote => last.acc.successCount > 0
        /\ cornersFile[last.side]["corner_data"] # last.before => last.acc.successCount > 0
        /\ (inputDir[last.side] = "dir" /\ folder[last.side] = <<>>) =>
              /\ ~last.ret
              /\ last.acc.visited = <<>>
              /\ ~last.wrote
              /\ cornersFile[last.side]["corner_data"] = last.before

C4_Witness ==
    /\ last.op = "detect" /\ last.mk = "ok"
    /\ inputDir[last.side] = "dir" /\ folder[last.side] = <<>>
    /\ cornersFile[last.side]["corner_data"] = NoFile /\ ~last.ret

\* C5: a failing image never aborts the batch: every whitelisted image of the folder
\* is processed, and the dataset holds exactly the observations of the images whose
\* detection succeeded, in processing order, image_count, image_files and corners
\* having that same length.
C5_FailuresAreSkipped ==
    Listed =>
        LET entries == folder[last.side]
            good == SelectSeq(entries, Succeeds)
        IN  /\ last.acc.visited = Ids(SelectSeq(entries, Whitelisted))
            /\ last.acc.imageFiles = Ids(good)
            /\ last.acc.successCount = Len(good)
            /\ last.acc.allCorners =
                  [i \in 1..Len(good) |-> Grid(good[i].id, boardWidth * boardHeight)]
            /\ last.wrote =>
                  LET f == cornersFile[last.side]["corner_data"]
                  IN  /\ f.image_files = Ids(good)
                      /\ f.corners = last.acc.allCorners
                      /\ f.image_count = Len(f.image_files)
                      /\ f.image_count = Len(f.corners)

C5_Witness ==
    /\ Listed /\ last.wrote
    /\ \E i, j \in 1..Len(folder[last.side]) :
          /\ i < j
          /\ Whitelisted(folder[last.side][i]) /\ ~Succeeds(folder[last.side][i])
          /\ Succeeds(folder[last.side][j])
          /\ cornersFile[last.side]["corner_data"].image_files[cornersFile[last.side]["corner_data"].image_count]
                = folder[last.side][j].id

\* C6: every observation stored in a corners.yml that detectAndDrawCorners wrote has
\* exactly boardWidth * boardHeight points.
C6_ObservationLength ==
    \A s \in Sides :
        cornersFile[s]["corner_data"].kind = "corners" =>
            \A i \in 1..Len(cornersFile[s]["corner_data"].corners) :
                Len(cornersFile[s]["corner_data"].corners[i]) = boardWidth * boardHeight

C6_Witness ==
    /\ Listed /\ last.wrote
    /\ Len(cornersFile[last.side]["corner_data"].corners) > 0
    /\ \E i \in 1..Len(folder[last.side]) :
          Whitelisted(folder[last.side][i]) /\ folder[last.side][i].content = "noboard"

(***************************************************************************)
(* Claims about stereo calibration (checked under SpecStereo).             *)
(***************************************************************************)
\* the corner files the stereo call of `last` was given
LeftGiven == cornersFile["left"][last.locL]
RightGiven == cornersFile["right"][last.locR]

StereoUntouched ==
    /\ ~last.wroteStereo /\ ~last.wroteRectify
    /\ stereoFile = last.beforeStereo
    /\ rectifyFile = last.beforeRectify

\* C1: calibrateStereoCamera on a left and a right dataset with different observation
\* counts returns false and neither creates nor modifies stereo_calibration.yml or
\* stereo_rectify.yml.
C1_UnequalCountsFail ==
    (/\ last.op = "stereo"
     /\ LeftGiven.kind = "corners" /\ RightGiven.kind = "corners"
     /\ Len(LeftGiven.corners) # Len(RightGiven.corners))
    => (~last.ret /\ ~last.solverInvoked /\ StereoUntouched)

C1_Witness ==
    /\ last.op = "stereo" /\ last.fault = "none"
    /\ LeftGiven.kind = "corners" /\ RightGiven.kind = "corners"
    /\ Len(LeftGiven.corners) > Len(RightGiven.corners)
    /\ Len(RightGiven.corners) > 0
    /\ last.beforeStereo.kind = "stereo" /\ last.beforeRectify.kind = "rectify"

\* C2 (as claimed): whenever calibrateStereoCamera returns false, for any cause and at
\* any step, the call has written neither stereo_calibration.yml nor stereo_rectify.yml.
C2_NoPartialStereoResult ==
    (last.op = "stereo" /\ ~last.ret) => StereoUntouched

\* C7 (as claimed): whenever calibrateStereoCamera accepts a left and a right dataset
\* that detectAndDrawCorners produced from the two folders of the same captures, the
\* i-th left and the i-th right observation come from the same capture.
C7_PositionalPairsMatch ==
    (/\ last.op = "stereo" /\ last.accepted
     /\ last.locL = "corner_data" /\ last.locR = "corner_data")
    => \A i \in 1..Len(LeftGiven.corners) :
          /\ LeftGiven.image_files[i] = RightGiven.image_files[i]
          /\ LeftGiven.corners[i][1][1] = RightGiven.corners[i][1][1]

(***************************************************************************)
(* Claims about monocular calibration (checked under SpecMono).            *)
(***************************************************************************)
MonoGiven == cornersFile[last.side][last.loc]

\* C8: calibrateCamera fails closed: when <cornerDataPath>/corners.yml cannot be opened
\* or holds zero observations, the call returns false without invoking the solver and
\* without writing camera_calibration.yml.
C8_MonoFailsClosed ==
    (last.op = "mono" /\ (MonoGiven.kind # "corners" \/ MonoGiven.corners = <<>>))
    => /\ ~last.ret /\ ~last.solverInvoked /\ ~last.wrote
       /\ cameraFile[last.side] = last.before

C8_Witness ==
    /\ last.op = "mono" /\ last.fault = "none"
    /\ MonoGiven.kind = "corners" /\ MonoGiven.corners = <<>>
    /\ cameraFile[last.side].kind = "camera"

\* C9 (as claimed): whenever calibrateCamera returns false, also when the image folder
\* used for undistortion or residuals is missing, camera_calibration.yml was neither
\* created nor overwritten by the call.
C9_NoOutputOnFailure ==
    (last.op = "mono" /\ ~last.ret)
    => (~last.wrote /\ cameraFile[last.side] = last.before)

(***************************************************************************)
(* Claims about reconstruct3D (checked under SpecRecon).                   *)
(***************************************************************************)
Steps == <<"loadImages", "loadRig", "rectify", "disparity", "loadQ", "generate",
           "filter", "save">>

\* C10 (as claimed): the steps of reconstruct3D run in the order load images, load
\* StereoRig, rectify, compute disparity, load Q, generate point cloud, filter, save;
\* a step runs only after every earlier step succeeded, and the first failing step is
\* the last one to run, after which the call returns false.
C10_StepsGatedInOrder ==
    LET t == recon.trace IN
    /\ Len(t) <= Len(Steps)
    /\ \A i \in 1..Len(t) : t[i].step = Steps[i]
    /\ \A i \in 1..Len(t) :
         ~t[i].ok => (i = Len(t) /\ recon.pc = "done" /\ ~recon.ret)

\* what does hold: the order is fixed and every step but filter is gated; a call that
\* returns true ran all eight steps
StepsGatedExceptFilter ==
    LET t == recon.trace IN
    /\ Len(t) <= Len(Steps)
    /\ \A i \in 1..Len(t) : t[i].step = Steps[i]
    /\ \A i \in 1..Len(t) :
         (~t[i].ok /\ t[i].step # "filter")
         => (i = Len(t) /\ recon.pc = "done" /\ ~recon.ret)
    /\ (recon.pc = "done" /\ recon.ret)
       => (Len(t) = Len(Steps) /\ \A i \in 1..Len(t) : t[i].ok \/ t[i].step = "filter")

\* a call whose filter step left no point and whose save step ran all the same
FilterFailedThenSaved ==
    /\ recon.pc = "done" /\ recon.ret
    /\ Len(recon.trace) = Len(Steps)
    /\ ~recon.trace[Len(Steps) - 1].ok
    /\ recon.cloudFile.kind = "cloud"

\* the step that ended the call with a failure, "none" if there is none
FailedStep ==
    IF recon.pc = "done" /\ ~recon.ret /\ recon.trace # <<>>
       /\ ~recon.trace[Len(recon.trace)].ok
    THEN recon.trace[Len(recon.trace)].step
    ELSE "none"

\* C11 (as claimed): when reconstruct3D returns false because the images are unreadable,
\* the StereoRig or RectificationSet file is missing or unreadable, no disparity map was
\* obtained or no point was generated, the call has written nothing under outputPath:
\* no rectified image, no disparity visualisation, no reconstruction file.
C11_NoFileOnFailure ==
    FailedStep \in {"loadImages", "loadRig", "rectify", "disparity", "loadQ", "generate"}
    => /\ ~recon.rectifiedWritten
       /\ ~recon.disparityWritten
       /\ recon.cloudFile = NoFile

\* C12 (as claimed): when zero points survive filterPointCloud, reconstruct3D returns
\* false and writes no reconstruction file.
C12_NoSurvivorsIsFailure ==
    (recon.pc = "done" /\ Len(recon.trace) = Len(Steps) /\ recon.remainingPoints = 0)
    => (~recon.ret /\ recon.cloudFile = NoFile)

WrittenAs(format) == last.written /\ last.format = format

\* C19: savePointCloud in PLY format writes 'element vertex N' with N the number of
\* points and N data lines whose colour is the point's BGR colour in the order r g b;
\* loadModel on a PLY file whose N lines are six numbers each yields N points in file
\* order, each with the line's r g b stored as (b, g, r), so that saving and loading
\* gives every point its original colour back.
C19_PlyRoundTrip ==
    /\ (last.op = "save" /\ last.ret /\ last.format = PLY_FORMAT)
       => /\ modelFile.header.vertex = Len(last.saved.points)
          /\ Len(modelFile.lines) = Len(last.saved.points)
          /\ \A i \in 1..Len(modelFile.lines) :
               /\ modelFile.lines[i].rgb[1] = last.saved.colors[i][3]
               /\ modelFile.lines[i].rgb[2] = last.saved.colors[i][2]
               /\ modelFile.lines[i].rgb[3] = last.saved.colors[i][1]
    /\ (/\ last.op = "load" /\ WrittenAs(PLY_FORMAT)
        /\ \A i \in 1..Len(modelFile.lines) : modelFile.lines[i].coords.numeric)
       => /\ Len(cloud.points) = modelFile.header.vertex
          /\ Len(cloud.colors) = modelFile.header.vertex
          /\ \A i \in 1..Len(cloud.points) :
               /\ cloud.points[i] = ParsePoint(modelFile.lines[i])
               /\ cloud.colors[i][1] = modelFile.lines[i].rgb[3]
               /\ cloud.colors[i][2] = modelFile.lines[i].rgb[2]
               /\ cloud.colors[i][3] = modelFile.lines[i].rgb[1]
               /\ cloud.colors[i] = last.saved.colors[i]

C19_Witness ==
    /\ last.op = "load" /\ last.ret /\ WrittenAs(PLY_FORMAT)
    /\ Len(modelFile.lines) = MaxPixels
    /\ \A i \in 1..Len(modelFile.lines) : modelFile.lines[i].coords.numeric
    /\ cloud.colors = last.saved.colors

\* C20 (as claimed): for every cloud, savePointCloud in XYZ format followed by loadModel
\* on the written file succeeds and yields as many points as were saved, with the same
\* coordinates in the same order.
C20_XyzRoundTrip ==
    (last.op = "load" /\ WrittenAs(XYZ_FORMAT))
    => (last.ret /\ cloud.points = last.saved.points)

(***************************************************************************)
(* Claims about point clouds (checked under SpecCloud).                    *)
(***************************************************************************)
\* the pixels of the map given to the latest generatePointCloud call that have a
\* positive disparity
PositivePixels == {i \in 1..Len(last.map) : last.map[i] > 0}

Given == last.before
StrictKeepsSome ==
    \E i \in 1..Len(Given.points) : PassesStrict(Given.points[i], last.maxDistance)

\* the cloud made of the elements of `c` at the positions `kept`
Selected(c, kept) ==
    [points |-> [k \in 1..Len(kept) |-> c.points[kept[k]]],
     colors |-> [k \in 1..Len(kept) |-> c.colors[kept[k]]]]

Positions(c) == [i \in 1..Len(c.points) |-> i]

\* C15: filterPointCloud is idempotent: filtering the cloud it returned once more with
\* the same maxDistance gives the same points, the same colours and the same count,
\* also when the first call went through the permissive fallback.
C15_FilterIdempotent ==
    last.op = "filter"
    => LET again == filterPointCloud(cloud.points, cloud.colors, last.maxDistance)
       IN  /\ again.points = cloud.points
           /\ again.colors = cloud.colors
           /\ again.remainingPoints = last.ret

C15_Witness ==
    /\ last.op = "filter" /\ ~StrictKeepsSome
    /\ Len(Given.points) = MaxPixels
    /\ cloud.points # <<>>
    /\ Len(cloud.points) < Len(Given.points)

\* a point that is finite and whose coordinate magnitudes and norm do not exceed max
WithinThreshold(p, max) ==
    /\ p.finite
    /\ Abs(p.x) <= max /\ Abs(p.y) <= max /\ Abs(p.z) <= max
    /\ p.x * p.x + p.y * p.y + p.z * p.z <= max * max

\* C16 (as claimed): when at least one point passes, filterPointCloud keeps exactly the
\* points, in their order and with their colours, that are finite and whose coordinate
\* magnitudes and norm do not exceed maxDistance, and returns their number.
C16_KeepsAllWithinThreshold ==
    (last.op = "filter" /\ StrictKeepsSome)
    => /\ cloud = Selected(Given, SelectSeq(Positions(Given),
                     LAMBDA i : WithinThreshold(Given.points[i], last.maxDistance)))
       /\ last.ret = Len(cloud.points)
       /\ last.ret = Len(cloud.colors)

\* what the strict pass does keep: the points strictly below the threshold
StrictPassKeepsBelowThreshold ==
    (last.op = "filter" /\ StrictKeepsSome)
    => /\ cloud = Selected(Given, SelectSeq(Positions(Given),
                     LAMBDA i : PassesStrict(Given.points[i], last.maxDistance)))
       /\ last.ret = Len(cloud.points)

\* the fallback of filterPointCloud was taken: a non-empty cloud without a point that
\* passes the strict pass
FellBack == last.op = "filter" /\ Given.points # <<>> /\ ~StrictKeepsSome

FiniteOnes == Selected(Given, SelectSeq(Positions(Given), LAMBDA i : Given.points[i].finite))

C18_ParallelVectors == Len(cloud.points) = Len(cloud.colors)

C18_Witness ==
    /\ last.op = "load" /\ ~last.ret
    /\ modelFile.kind = "cloud"

\* a filter call that dropped a point and kept one
FilterDroppedSome ==
    /\ last.op = "filter"
    /\ cloud.points # <<>>
    /\ Len(cloud.points) < Len(Given.points)

(***************************************************************************)
(* Claims about unrecognised formats (checked under SpecModel).            *)
(***************************************************************************)
\* C21 (as claimed): an unrecognised format is a failure on both sides: loadModel
\* returns false for a file whose extension is not ply, xyz or obj, and savePointCloud
\* returns true only for a format that is one of PLY_FORMAT, OBJ_FORMAT, XYZ_FORMAT.
C21_UnknownFormatFails ==
    /\ (last.op = "load" /\ modelFile.kind = "cloud"
        /\ Extension(modelFile.name) \notin {"ply", "xyz", "obj"}) => ~last.ret
    /\ (last.op = "save" /\ last.ret) => last.format \in KnownFormats

\* a save with a format that is none of the three created an empty file named
\* reconstruction.ply and returned true
UnknownFormatSaved ==
    /\ last.op = "save" /\ last.ret /\ last.format \notin KnownFormats
    /\ modelFile.kind = "cloud" /\ modelFile.name = "reconstruction.ply"
    /\ modelFile.lines = <<>> /\ modelFile.header = NoHeader

CalibrationFileWithoutMatrices ==
    /\ last.op = "loadCalib" /\ ~last.ret
    /\ Opens(cameraFile["left"])

(***************************************************************************)
(* Claims about runCalibration (checked under SpecProgram).                *)
(***************************************************************************)
\* C23 (as claimed): whatever the file-system and library operations do (missing
\* folder, an input path that is no directory, unreadable image, solver exception),
\* every stage and runCalibration itself end by returning a boolean: no exception
\* leaves a stage and none leaves runCalibration.
C23_NoExceptionEscapes ==
    /\ run.pc # "thrown"
    /\ \A i \in 1..Len(run.trace) : run.trace[i].result \in {"true", "false"}

\* an input path that exists and is no directory makes validateInputPaths throw
ValidateThrows ==
    /\ run.pc = "thrown"
    /\ Len(run.trace) = 1 /\ run.trace[1].result = "throws"
    /\ "file" \in {inputDir["left"], inputDir["right"]}

\* what does hold: the stage functions with a try block around their body always
\* return; an exception leaves only validateInputPaths, createOutputDirectories or
\* rectifyImages
OnlyUnguardedStagesThrow ==
    /\ \A i \in 1..Len(run.trace) :
         run.trace[i].result = "throws" => run.trace[i].stage \in {"validate", "rectify"}
    /\ run.pc = "thrown"
       => run.trace[Len(run.trace)].stage \in {"validate", "rectify"}

\* C24: runCalibration is fail-fast: the stages validate inputs, preprocess, detect
\* corners, monocular calibration, stereo calibration, rectify, 3D model are invoked
\* in that order; a stage is invoked only if every earlier stage returned true; the
\* first mandatory stage to return false is the last stage invoked and makes
\* runCalibration return false; a run that returns true invoked all seven stages,
\* and a false result of the 3D-model stage leaves the result true.
C24_FailFast ==
    LET t == run.trace IN
    /\ Len(t) <= Len(Stages)
    /\ \A i \in 1..Len(t) : t[i].stage = Stages[i]
    /\ \A i \in 1..Len(t) : \A j \in 1..(i - 1) : t[j].result = "true"
    /\ \A i \in 1..Len(t) :
         (t[i].result = "false" /\ t[i].stage # "model3D")
         => (i = Len(t) /\ run.pc = "done" /\ ~run.ret)
    /\ (run.pc = "done" /\ run.ret) => Len(t) = Len(Stages)
    /\ (Len(t) = Len(Stages)) => (run.pc = "done" /\ run.ret)

C24_Witness ==
    /\ run.pc = "done" /\ ~run.ret
    /\ Len(run.trace) = 4
    /\ run.trace[3].result = "true" /\ run.trace[4].result = "false"

\* a run that returned true although its 3D-model stage returned false
ModelStageFailureIgnored ==
    /\ run.pc = "done" /\ run.ret
    /\ run.trace[Len(Stages)].result = "false"

\* every entry of both input folders is a readable image showing the whole board
AllBoards ==
    \A s \in Sides :
        /\ inputDir[s] = "dir" /\ folder[s] # <<>>
        /\ \A i \in 1..Len(folder[s]) : Succeeds(folder[s][i])

\* the output tree held no corners.yml when the run began (no stage writes
\* corners/<side>/corners.yml, so it is absent now iff it was absent then)
EmptyOutput == \A s \in Sides : cornersFile[s]["root"] = NoFile

\* C28 (as claimed): starting from an empty output directory, if every image load,
\* corner detection, solver call and file write succeeds, the monocular and the stereo
\* calibration stage open the corners.yml the corner-detection stage of the same run
\* wrote, and runCalibration returns true.
C28_ArtifactsFlowForward ==
    (EmptyOutput /\ AllBoards /\ ~run.faulty)
    => /\ \A i \in 1..Len(run.opened) : run.opened[i] = "corner_data"
       /\ run.pc = "done" => run.ret

\* such a run ends after the monocular stage: corners/<side>/corner_data/corners.yml
\* was written and corners/<side>/corners.yml, which the stage opens, does not exist
CleanRunFailsAtMono ==
    /\ EmptyOutput /\ AllBoards /\ ~run.faulty
    /\ run.pc = "done" /\ ~run.ret
    /\ Len(run.trace) = 4 /\ run.trace[3].result = "true"
    /\ \A s \in Sides : cornersFile[s]["corner_data"].kind = "corners"

(***************************************************************************)
(* Claims about residual images (checked under SpecResidual).              *)
(***************************************************************************)
\* the image folder of the call of `last` holds a file an image can be read from
HoldsReadableImage ==
    \E i \in 1..Len(folder[last.side]) :
        folder[last.side][i].regular /\ imread(folder[last.side][i])

\* C26 (as claimed): given N observations and an image folder holding at least one
\* readable image, generateResidualImages writes exactly the N files residual_0.jpg
\* ... residual_(N-1).jpg, one per observation.
C26_OneResidualPerObservation ==
    (/\ last.op = "mono" /\ last.wrote /\ last.imagePath = "folder"
     /\ HoldsReadableImage)
    => last.residuals = 0..(Len(MonoGiven.corners) - 1)

\* a call that had an observation and a readable image in the folder and wrote no
\* residual image, the file chosen for index 0 being one cv::imread cannot decode
NoResidualDespiteReadableImage ==
    /\ last.op = "mono" /\ last.wrote /\ last.imagePath = "folder"
    /\ HoldsReadableImage
    /\ Len(MonoGiven.corners) = 1
    /\ last.residuals = {}
    /\ ~imread(folder[last.side][1])

\* what does hold: residual_k.jpg is written exactly when the file chosen for index k
\* (the first regular file whose name contains k, any first regular file for k = 0,
\* else the first .jpg/.jpeg/.png/.bmp file) can be read
ResidualsFollowChosenFile ==
    (last.op = "mono" /\ last.wrote /\ last.imagePath = "folder")
    => \A k \in 0..(Len(MonoGiven.corners) - 1) :
          k \in last.residuals
          <=> LET src == ResidualSource(folder[last.side], k)
              IN  "id" \in DOMAIN src /\ imread(src)

Kept == cornersFile[last.side]["corner_data"]

\* a failed detectAndDrawCorners call leaves corner_data/corners.yml as it was
FailedDetectLeavesFile ==
    (last.op = "detect" /\ ~last.ret) => (Kept = last.before /\ ~last.wrote)

\* a calibrateCamera call that directly follows a failed detectAndDrawCorners call on
\* a corner folder still holding the dataset of an earlier call
AfterFailedRun ==
    /\ last.op = "mono" /\ last.afterFailedDetect
    /\ Kept.kind = "corners" /\ Kept.corners # <<>>

StaleDatasetNotFound ==
    /\ AfterFailedRun /\ last.loc = "root" /\ last.fault = "none"
    /\ MonoGiven = NoFile /\ ~last.ret /\ ~last.solverInvoked

(***************************************************************************)
(* Claims about the rescaling inside reconstruct3D (checked under          *)
(* SpecRecon).                                                             *)
(***************************************************************************)
\* the finite points of the generated cloud and their largest extent along an axis,
\* in halves of a unit
FiniteGenerated == {i \in 1..Len(recon.generated) : recon.generated[i].finite}

Extent ==
    IF FiniteGenerated = {} THEN -1
    ELSE SetMax({SetMax({recon.generated[i].x : i \in FiniteGenerated})
                   - SetMin({recon.generated[i].x : i \in FiniteGenerated}),
                 SetMax({recon.generated[i].y : i \in FiniteGenerated})
                   - SetMin({recon.generated[i].y : i \in FiniteGenerated}),
                 SetMax({recon.generated[i].z : i \in FiniteGenerated})
                   - SetMin({recon.generated[i].z : i \in FiniteGenerated})})

\* C30: in reconstruct3D the rescaling runs after the point generation and before the
\* filtering, and only when the largest axis extent over the finite points is strictly
\* between 0 and 1: then every coordinate of every point is multiplied by the same
\* factor 10 / maxRange; the number and order of the points and every colour stay as
\* generated, and in every other case the coordinates reach filterPointCloud unchanged.
C30_RescaleOnlySmallClouds ==
    recon.pc = "filter"
    => LET g == recon.generated
           p == recon.points
           valid == ValidPixels(recon.disparityMap)
       IN  /\ Len(recon.trace) = 6
           /\ recon.trace[6].step = "generate" /\ recon.trace[6].ok
           /\ recon.scaled <=> (Extent > 0 /\ Extent < 2)
           /\ Len(p) = Len(g)
           /\ recon.colors = [k \in 1..Len(valid) |-> ColorAt(valid[k])]
           /\ recon.scaled
              => \A i \in 1..Len(g) :
                   /\ p[i].finite = g[i].finite
                   /\ g[i].finite => /\ p[i].x * Extent = g[i].x * 20
                                     /\ p[i].y * Extent = g[i].y * 20
                                     /\ p[i].z * Extent = g[i].z * 20
           /\ ~recon.scaled => p = g

C30_Witness ==
    /\ recon.pc = "filter" /\ recon.scaled
    /\ recon.generated = <<Point(2), OffAxis>>
    /\ recon.points[2].z = 20

\* a cloud exactly 1.0 wide is not rescaled
UnitWideCloudNotRescaled ==
    /\ recon.pc = "filter" /\ ~recon.scaled
    /\ recon.generated = <<Point(1), Point(3)>>
    /\ recon.points = recon.generated

(***************************************************************************)
(* Claims about concurrent calls (checked under SpecConcurrent).           *)
(***************************************************************************)
Finished == \A i \in Invocations : calls[i].pc = "done"

\* the files a call leaves in its output path when it runs alone
Alone(i) ==
    [n \in FileNames |->
       IF n \in ImageNames THEN ImageOf(i)
       ELSE IF n = OutputFile(calls[i].format)
            THEN TextFile(TextLines(Result(calls[i])))
            ELSE NoFile]

Written(i) == ImageNames \cup {OutputFile(calls[i].format)}

\* C25 (as claimed): two interleaved calls of reconstruct3D share no mutable state:
\* once both have returned, every file a call wrote is exactly the file it would have
\* written running alone, and no file holds a mix of the two calls' results.
C25_ConcurrentAsAlone ==
    Finished
    => \A i \in Invocations : \A n \in Written(i) :
         outputs[calls[i].outputPath][n] = Alone(i)[n]

\* both calls returned true and a reconstruction file of their common output path is
\* neither call's result: it holds lines of both, or a gap
MixedFile ==
    /\ Finished
    /\ \E p \in OutputPaths, n \in FileNames \ ImageNames :
         /\ outputs[p][n].kind = "text"
         /\ \A i \in Invocations : outputs[p][n] # Alone(i)[n]
         /\ \/ \E j \in 1..Len(outputs[p][n].lines) : outputs[p][n].lines[j] = Hole
            \/ \A i \in Invocations :
                 \E j \in 1..Len(outputs[p][n].lines) :
                   /\ j <= Len(Alone(i)[n].lines)
                   /\ outputs[p][n].lines[j] = Alone(i)[n].lines[j]
                   /\ \A o \in Invocations \ {i} :
                        j > Len(Alone(o)[n].lines)
                        \/ outputs[p][n].lines[j] # Alone(o)[n].lines[j]

\* a PLY file whose header announces one call's vertex count over the other's points
HeaderOfOneBodyOfOther ==
    /\ Finished
    /\ \A i \in Invocations : calls[i].format = PLY_FORMAT /\ Len(calls[i].points) = i
    /\ \E p \in OutputPaths :
         LET f == outputs[p]["reconstruction.ply"]
         IN  /\ f.kind = "text" /\ Len(f.lines) = 12
             /\ f.lines[3] = HeaderLine("element vertex", 2)
             /\ f.lines[11] = Alone(1)["reconstruction.ply"].lines[11]
             /\ f.lines[12] = Alone(2)["reconstruction.ply"].lines[12]

\* what the code guarantees: calls given different output paths, or writing
\* different formats, leave the reconstruction each would have left alone
SeparateFilesAsAlone ==
    (Finished /\ (calls[1].outputPath # calls[2].outputPath
                  \/ OutputFile(calls[1].format) # OutputFile(calls[2].format)))
    => \A i \in Invocations :
         outputs[calls[i].outputPath][OutputFile(calls[i].format)]
           = Alone(i)[OutputFile(calls[i].format)]

\* and calls given different output paths leave every file as if run alone
SeparatePathsAsAlone ==
    (Finished /\ calls[1].outputPath # calls[2].outputPath) => C25_ConcurrentAsAlone

====
